---------------------------- MODULE Spec2Model ----------------------------
(***************************************************************************)
(* State-machine model of the agent orchestrator (denys89/syn-office):     *)
(*   - the per-provider circuit breaker (rate_limiter.py),                 *)
(*   - model selection and the generation path of execute_task             *)
(*     (model_selection/*.py, orchestrator.py),                            *)
(*   - the tool-plan executor (tool_execution/execution_orchestrator.py,   *)
(*     result_normalizer.py).                                              *)
(* Each subsystem has its own specification over the shared variables.     *)
(***************************************************************************)
EXTENDS Integers, Sequences, FiniteSets, TLC

VARIABLES
    circuits,       \* CircuitBreaker._circuits: provider -> CircuitBreakerStats
    now,            \* time.time(), in seconds
    lastCall,       \* the last breaker call and what it returned
    consecFailures, \* history: record_failure calls since the last record_success / reset
    halfOpenSucc,   \* history: record_success calls since the breaker last entered HALF_OPEN
    registry,       \* ModelRegistry._models, in insertion order
    policy,         \* PolicyEnforcer: prefer_local, matched restriction, provider priority
    request,        \* what select_model reads of the request and the agent context
    selected,       \* what select_model returned (NoSelection before the call)
    pc,             \* execute_task: the position of the handler
    dbStatus,       \* the task's status as last written by db.update_task_status
    response,       \* the ExecuteResponse returned (NoResponse while running)
    attempt,        \* execute_with_fallback: index of the candidate being tried
    modelsTried,    \* execute_with_fallback: models_tried
    generated,      \* models whose provider.generate was called, in order
    raised,         \* the exception on its way to execute_task's handler
    estimatedCredits, \* execute_task: estimated_credits
    creditCheck,    \* execute_task: credit_check, what check_balance returned
    budgetResult,   \* execute_task: budget_result, what check_budget returned
    tokenUsage,     \* execute_task: token_usage of the generation
    creditsConsumed, \* execute_task: credits_consumed
    consumeCalls,   \* history: the consume_credits calls made, with their outcome
    officeState,    \* CreditRateLimiter._office_state of the office
    datetimeNow,    \* datetime.now(), in ticks of 1/TicksPerSecond second
    lastBudget,     \* the last rate-limiter call and what it returned
    costModel,      \* cost engine: the ModelDefinition given
    costTokens,     \* cost engine: the token counts given
    costResult,     \* cost engine: the last call and the credits it returned
    metricsSaved,   \* history: the records given to metrics.save, in order
    calls,          \* history: the collaborators execute_task called, in order
    plan,           \* execute_plan: the ActionPlan
    permissions,    \* ExecutionContext.permissions
    usage,          \* QuotaManager._usage of the user: vendor -> VendorUsageState
    activeRequests, \* QuotaManager._active_requests of the user: vendor -> count
    activeExecutions, \* ExecutionOrchestrator._active_executions (the ids)
    planPc,         \* execute_plan: the position of the handler
    cursor,         \* the index of the step the loop over the steps is at
    stepState,      \* per step: ActionStep.status, adapter.execute calls, result
    results,        \* the list `results` of the executing mode
    completedStepIds, \* _execute_parallel: completed_step_ids
    execResult,     \* the ExecutionResult returned (NoResult while running)
    utcnow,         \* datetime.utcnow(), in ticks of 1/TicksPerSecond second
    customQuotas,   \* QuotaManager._custom_quotas: vendor -> QuotaConfig
    lastQuotaCheck, \* the last quota-manager call and what it returned
    recorded,       \* history: per vendor, the stamps record_usage was called at
    checkedTool,    \* check_permissions: the ToolDefinition given
    permissionResult, \* check_permissions: the PermissionResult returned
    retryTool,      \* _execute_with_retry: the ToolDefinition given
    retryAttempt,   \* _execute_with_retry: the loop variable `attempt`
    retryTrace,     \* history: the sleeps and adapter.execute calls of the loop
    retryResult,    \* _execute_with_retry: the AdapterResult returned
    registeredTools, \* ToolRegistry._tools: tool name -> ToolDefinition
    registryLog,    \* history: the registry calls made, with what they did
    sandboxAvailable, \* ExecutionSandbox._available
    subprocesses,   \* the child processes _run_subprocess has created
    lastTransform,  \* the last data_transform step the adapter executed
    adapterScript,  \* deterministic adapters: what each step's adapter.execute does
    firstResult,    \* the ExecutionResult of the first of two execute_plan calls
    sharedData,     \* _execute_sequential: the local dict shared_data
    stepContext,    \* per step: the shared_data of the context execute_step was called with
    stepOutput,     \* per step: StepResult.output of the result execute_step returned
    planCalls,      \* the execute_plan calls of the callers: where each is, with which execution id
    resumeResult,   \* resume_plan: the ExecutionResult returned
    listedExecutions, \* get_active_executions: the ids returned
    consumptionLog  \* history: the (timestamp, credits) of every record_consumption call

cbVars == <<circuits, now, lastCall, consecFailures, halfOpenSucc>>
selVars == <<registry, policy, request, selected>>
creditVars == <<estimatedCredits, creditCheck, budgetResult, tokenUsage,
                creditsConsumed, consumeCalls>>
budgetVars == <<officeState, datetimeNow, lastBudget>>
costVars == <<costModel, costTokens, costResult>>
traceVars == <<metricsSaved, calls>>
taskVars == <<pc, dbStatus, response, attempt, modelsTried, generated, raised,
              estimatedCredits, creditCheck, budgetResult, tokenUsage,
              creditsConsumed, consumeCalls, officeState, datetimeNow, lastBudget,
              costModel, costTokens, costResult, metricsSaved, calls>>
execVars == <<plan, permissions, activeExecutions, planPc, cursor, stepState,
              results, completedStepIds, execResult>>
quotaVars == <<utcnow, customQuotas, lastQuotaCheck, recorded>>
gateVars == <<checkedTool, permissionResult>>
retryVars == <<retryTool, retryAttempt, retryTrace, retryResult>>
registryVars == <<registeredTools, registryLog>>
sandboxVars == <<sandboxAvailable, subprocesses, lastTransform>>
rerunVars == <<adapterScript, firstResult>>
shareVars == <<sharedData, stepContext, stepOutput>>
activeVars == <<planCalls, resumeResult, listedExecutions>>
windowVars == <<consumptionLog>>
toolVars == <<retryTool, retryAttempt, retryTrace, retryResult, registeredTools,
              registryLog, sandboxAvailable, subprocesses, lastTransform,
              adapterScript, firstResult,
              sharedData, stepContext, stepOutput,
              planCalls, resumeResult, listedExecutions,
              consumptionLog>>
planVars == <<plan, permissions, usage, activeRequests, activeExecutions, planPc,
              cursor, stepState, results, completedStepIds, execResult,
              utcnow, customQuotas, lastQuotaCheck, recorded,
              checkedTool, permissionResult,
              retryTool, retryAttempt, retryTrace, retryResult, registeredTools,
          registryLog, sandboxAvailable, subprocesses, lastTransform,
          adapterScript, firstResult,
          sharedData, stepContext, stepOutput,
          planCalls, resumeResult, listedExecutions,
          consumptionLog>>

vars == <<circuits, now, lastCall, consecFailures, halfOpenSucc,
          registry, policy, request, selected,
          pc, dbStatus, response, attempt, modelsTried, generated, raised,
          estimatedCredits, creditCheck, budgetResult, tokenUsage,
          creditsConsumed, consumeCalls, officeState, datetimeNow, lastBudget,
          costModel, costTokens, costResult, metricsSaved, calls,
          plan, permissions, usage, activeRequests, activeExecutions, planPc,
          cursor, stepState, results, completedStepIds, execResult,
          utcnow, customQuotas, lastQuotaCheck, recorded,
          checkedTool, permissionResult,
          retryTool, retryAttempt, retryTrace, retryResult, registeredTools,
          registryLog, sandboxAvailable, subprocesses, lastTransform,
          adapterScript, firstResult,
          sharedData, stepContext, stepOutput,
          planCalls, resumeResult, listedExecutions,
          consumptionLog>>

---------------------------------------------------------------------------
(* Circuit breaker: rate_limiter.py, class CircuitBreaker                  *)

FAILURE_THRESHOLD == 5
RECOVERY_TIMEOUT_SECONDS == 60
SUCCESS_THRESHOLD == 3

\* Optional[float] = None; `if stats.last_failure_time:` treats None and 0.0 alike
NoTime == 0

\* bounds of the breaker model
MaxTime == 121      \* the clock stops here
MaxCount == 6       \* cap on the failures tallied over all providers
MaxSucc == 3        \* cap on the successes tallied over all providers

\* the clock advances by half a recovery timeout in one step
ClockStep == RECOVERY_TIMEOUT_SECONDS \div 2

Providers == {"openai", "ollama"}

CLOSED == "closed"
OPEN == "open"
HALF_OPEN == "half_open"

CircuitBreakerStats ==
    [failures |-> 0, successes |-> 0, last_failure_time |-> NoTime, state |-> CLOSED]

\* can_execute with the timeout compared strictly
CanExecuteStrict(stats, t) ==
    IF stats.state = CLOSED THEN [allowed |-> TRUE, reason |-> "None", stats |-> stats]
    ELSE IF stats.state = OPEN THEN
        IF stats.last_failure_time # NoTime
           /\ t - stats.last_failure_time > RECOVERY_TIMEOUT_SECONDS
        THEN [allowed |-> TRUE, reason |-> "None",
              stats |-> [stats EXCEPT !.state = HALF_OPEN]]
        ELSE [allowed |-> FALSE, reason |-> "Circuit breaker open", stats |-> stats]
    ELSE [allowed |-> TRUE, reason |-> "None", stats |-> stats]

\* can_execute under the lock: [allowed, reason, stats after the call]
CanExecute(stats, t) ==
    IF stats.state = CLOSED THEN [allowed |-> TRUE, reason |-> "None", stats |-> stats]
    ELSE IF stats.state = OPEN THEN
        IF stats.last_failure_time # NoTime
           /\ t - stats.last_failure_time >= RECOVERY_TIMEOUT_SECONDS
        THEN [allowed |-> TRUE, reason |-> "None",
              stats |-> [stats EXCEPT !.state = HALF_OPEN]]
        ELSE [allowed |-> FALSE, reason |-> "Circuit breaker open", stats |-> stats]
    ELSE [allowed |-> TRUE, reason |-> "None", stats |-> stats]

\* record_success closing the circuit whatever its state
RecordSuccessAnyState(stats) ==
    LET s1 == [stats EXCEPT !.successes = @ + 1]
    IN  IF s1.successes >= SUCCESS_THRESHOLD
        THEN [s1 EXCEPT !.state = CLOSED, !.failures = 0, !.successes = 0]
        ELSE s1

RecordSuccess(stats) ==
    LET s1 == [stats EXCEPT !.successes = @ + 1]
    IN  IF s1.state = HALF_OPEN /\ s1.successes >= SUCCESS_THRESHOLD
        THEN [s1 EXCEPT !.state = CLOSED, !.failures = 0, !.successes = 0]
        ELSE s1

\* record_failure that latches the failure time only when the threshold opens the circuit
RecordFailureNoRelatch(stats, t) ==
    LET s1 == [stats EXCEPT !.failures = @ + 1]
    IN  IF s1.state = HALF_OPEN
        THEN [s1 EXCEPT !.state = OPEN, !.successes = 0]
        ELSE IF s1.failures >= FAILURE_THRESHOLD
             THEN [s1 EXCEPT !.state = OPEN, !.last_failure_time = t]
             ELSE [s1 EXCEPT !.last_failure_time = t]

RecordFailure(stats, t) ==
    LET s1 == [stats EXCEPT !.failures = @ + 1, !.last_failure_time = t]
    IN  IF s1.state = HALF_OPEN
        THEN [s1 EXCEPT !.state = OPEN, !.successes = 0]
        ELSE IF s1.failures >= FAILURE_THRESHOLD
             THEN [s1 EXCEPT !.state = OPEN]
             ELSE s1

RECURSIVE SumOver(_, _)
SumOver(S, f) ==
    IF S = {} THEN 0
    ELSE LET x == CHOOSE y \in S : TRUE IN f[x] + SumOver(S \ {x}, f)

TalliedFailures == SumOver(Providers, [p \in Providers |-> circuits[p].failures])
TalliedSuccesses == SumOver(Providers, [p \in Providers |-> circuits[p].successes])

\* lastCall: the breaker call made in the last step (NoCall when the step made none)
NoCall == [op |-> "none", provider |-> "none", from |-> "none", allowed |-> TRUE,
           reason |-> "None"]

NoSelection == [kind |-> "none"]

\* the variables of the model selector while another subsystem runs
SelIdle ==
    /\ registry = <<>>
    /\ policy = [prefer_local |-> FALSE, restricted |-> {}, priority |-> <<>>,
                 max_retries |-> 0, fallback_enabled |-> FALSE]
    /\ request = [role |-> "none", text_caps |-> "none", sensitive |-> FALSE,
                  context_length |-> 0]
    /\ selected = NoSelection

NoResponse == [status |-> "none", error |-> "None", output |-> "None"]

\* execute_task before the credit steps: nothing estimated, checked or consumed
NoCreditCheck == [has_sufficient |-> FALSE, current_balance |-> 0, error |-> "none"]

NoBudgetResult == [allowed |-> FALSE, action |-> "none", reason |-> "None"]

NoTokenUsage == [prompt_tokens |-> 0, completion_tokens |-> 0]

CreditIdle ==
    /\ estimatedCredits = 0
    /\ creditCheck = NoCreditCheck
    /\ budgetResult = NoBudgetResult
    /\ tokenUsage = NoTokenUsage
    /\ creditsConsumed = 0
    /\ consumeCalls = <<>>
    /\ metricsSaved = <<>>
    /\ calls = <<>>

\* OfficeUsageState(): hourly_records holds the ConsumptionRecords, oldest first
OfficeUsageState == [hourly_records |-> <<>>, daily_credits |-> 0, last_reset_day |-> -1]

NoBudgetCall == [op |-> "none"]

\* the rate limiter while another subsystem runs
BudgetIdle ==
    /\ officeState = OfficeUsageState
    /\ datetimeNow = 0
    /\ lastBudget = NoBudgetCall

NoCostModel == [name |-> "None", cost_level |-> "free"]

NoCostResult == [op |-> "none", credits |-> 0]

\* the cost engine while another subsystem runs
CostIdle ==
    /\ costModel = NoCostModel
    /\ costTokens = NoTokenUsage
    /\ costResult = NoCostResult

\* execute_task while another subsystem runs
TaskIdle ==
    /\ pc = "idle"
    /\ dbStatus = "pending"
    /\ response = NoResponse
    /\ attempt = 0
    /\ modelsTried = <<>>
    /\ generated = <<>>
    /\ raised = "None"
    /\ CreditIdle
    /\ BudgetIdle
    /\ CostIdle

\* ToolVendor
ToolVendor == {"google", "microsoft", "aws", "internal", "custom"}

\* VendorUsageState(): the stamps of each window, oldest first (last_request_time
\* is written and never read)
VendorUsageState == [minute_records |-> <<>>, hour_records |-> <<>>, day_records |-> <<>>]

\* lastQuotaCheck: the quota-manager call made in the last step
NoQuotaCheck == [op |-> "none", vendor |-> "none"]

\* QuotaManager._custom_quotas before any set_quota: the empty dict
NoCustomQuotas == <<>>

\* the quota manager's clock, custom quotas and call history before any call
QuotaIdle ==
    /\ utcnow = 0
    /\ customQuotas = NoCustomQuotas
    /\ lastQuotaCheck = NoQuotaCheck
    /\ recorded = [v \in ToolVendor |-> <<>>]

NoResult == [status |-> "None"]

NoPlan == [execution_id |-> "None", steps |-> <<>>, parallel_execution |-> FALSE]

NoPermissions ==
    [granted_scopes |-> {}, oauth_tokens |-> [v \in ToolVendor |-> "absent"]]

NoTool == [tool_name |-> "None"]

NoPermissionResult == [status |-> "None"]

\* the permission gateway before any call
GateIdle ==
    /\ checkedTool = NoTool
    /\ permissionResult = NoPermissionResult

\* _execute_with_retry before any call
NoAdapterResult == [success |-> FALSE, error |-> "None", error_code |-> "None"]

RetryIdle ==
    /\ retryTool = NoTool
    /\ retryAttempt = 0
    /\ retryTrace = <<>>
    /\ retryResult = NoAdapterResult

\* ToolRegistry.__init__: `self._tools = {}`
NoTools == <<>>

RegistryIdle ==
    /\ registeredTools = NoTools
    /\ registryLog = <<>>

NoTransform == [code |-> <<>>, error_code |-> "not called"]

\* ExecutionSandbox.__init__
SandboxIdle ==
    /\ sandboxAvailable = FALSE
    /\ subprocesses = 0
    /\ lastTransform = NoTransform

\* no scripted adapters and no earlier call of execute_plan
RerunIdle ==
    /\ adapterScript = <<>>
    /\ firstResult = NoResult

\* ExecutionContext.shared_data of the caller: the default, an empty dict
InitialSharedData == <<>>

ShareIdle ==
    /\ sharedData = InitialSharedData
    /\ stepContext = <<>>
    /\ stepOutput = <<>>

ActiveIdle ==
    /\ planCalls = <<>>
    /\ resumeResult = NoResult
    /\ listedExecutions = {}

WindowIdle == consumptionLog = <<>>

\* the tool-side components that are driven on their own, before any call
ToolsIdle ==
    /\ RetryIdle
    /\ RegistryIdle
    /\ SandboxIdle
    /\ RerunIdle
    /\ ShareIdle
    /\ ActiveIdle
    /\ WindowIdle

\* the executor while another subsystem runs
ExecIdle ==
    /\ plan = NoPlan
    /\ permissions = NoPermissions
    /\ usage = [v \in ToolVendor |-> VendorUsageState]
    /\ activeRequests = [v \in ToolVendor |-> 0]
    /\ activeExecutions = {}
    /\ planPc = "idle"
    /\ cursor = 0
    /\ stepState = <<>>
    /\ results = <<>>
    /\ completedStepIds = {}
    /\ execResult = NoResult
    /\ QuotaIdle
    /\ GateIdle

\* the whole tool pipeline while another subsystem runs
PlanIdle ==
    /\ ExecIdle
    /\ ToolsIdle

CBInit ==
    /\ SelIdle
    /\ TaskIdle
    /\ PlanIdle
    /\ circuits = [p \in Providers |-> CircuitBreakerStats]
    /\ now = 1
    /\ lastCall = NoCall
    /\ consecFailures = [p \in Providers |-> 0]
    /\ halfOpenSucc = [p \in Providers |-> 0]

can_execute(p) ==
    LET r == CanExecute(circuits[p], now)
    IN  /\ circuits' = [circuits EXCEPT ![p] = r.stats]
        /\ lastCall' = [op |-> "can_execute", provider |-> p,
                        from |-> circuits[p].state, allowed |-> r.allowed,
                        reason |-> r.reason]
        /\ halfOpenSucc' = IF circuits[p].state = OPEN /\ r.stats.state = HALF_OPEN
                           THEN [halfOpenSucc EXCEPT ![p] = 0]
                           ELSE halfOpenSucc
        /\ UNCHANGED <<now, consecFailures>>

record_success(p) ==
    /\ TalliedSuccesses < MaxSucc
    /\ circuits' = [circuits EXCEPT ![p] = RecordSuccess(@)]
    /\ lastCall' = [op |-> "record_success", provider |-> p,
                    from |-> circuits[p].state, allowed |-> TRUE,
                    reason |-> "None"]
    /\ consecFailures' = [consecFailures EXCEPT ![p] = 0]
    /\ halfOpenSucc' = [halfOpenSucc EXCEPT
                            ![p] = IF circuits[p].state = HALF_OPEN THEN @ + 1 ELSE 0]
    /\ UNCHANGED now

record_failure(p) ==
    /\ TalliedFailures < MaxCount
    /\ circuits' = [circuits EXCEPT ![p] = RecordFailure(@, now)]
    /\ lastCall' = [op |-> "record_failure", provider |-> p,
                    from |-> circuits[p].state, allowed |-> TRUE,
                    reason |-> "None"]
    /\ consecFailures' = [consecFailures EXCEPT ![p] = @ + 1]
    /\ halfOpenSucc' = [halfOpenSucc EXCEPT ![p] = 0]
    /\ UNCHANGED now

reset(p) ==
    /\ circuits[p] # CircuitBreakerStats
    /\ circuits' = [circuits EXCEPT ![p] = CircuitBreakerStats]
    /\ lastCall' = [op |-> "reset", provider |-> p,
                    from |-> circuits[p].state, allowed |-> TRUE,
                    reason |-> "None"]
    /\ consecFailures' = [consecFailures EXCEPT ![p] = 0]
    /\ halfOpenSucc' = [halfOpenSucc EXCEPT ![p] = 0]
    /\ UNCHANGED now

Tick ==
    /\ now + ClockStep <= MaxTime
    /\ now' = now + ClockStep
    /\ lastCall' = NoCall
    /\ UNCHANGED <<circuits, consecFailures, halfOpenSucc>>

CBNext ==
    \/ \E p \in Providers :
          can_execute(p) /\ UNCHANGED <<selVars, taskVars, planVars>>
    \/ \E p \in Providers :
          record_success(p) /\ UNCHANGED <<selVars, taskVars, planVars>>
    \/ \E p \in Providers :
          record_failure(p) /\ UNCHANGED <<selVars, taskVars, planVars>>
    \/ \E p \in Providers :
          reset(p) /\ UNCHANGED <<selVars, taskVars, planVars>>
    \/ Tick /\ UNCHANGED <<selVars, taskVars, planVars>>

SpecCB == CBInit /\ [][CBNext]_vars

Spec == SpecCB

---------------------------------------------------------------------------
(* Claims about the circuit breaker, under SpecCB                           *)

\* C1: from CLOSED the breaker of a provider opens exactly when FAILURE_THRESHOLD
\* consecutive record_failure calls (no record_success between them) have been made
\* for it; failures separated by a success do not add up.
C1_OpensOnConsecutiveFailures ==
    [][\A p \in Providers :
        (circuits[p].state = CLOSED /\ lastCall'.op # "reset") =>
            (circuits'[p].state = OPEN <=> consecFailures'[p] >= FAILURE_THRESHOLD)]_vars

\* C2: HALF_OPEN moves to CLOSED only after SUCCESS_THRESHOLD record_success calls
\* made since HALF_OPEN was entered, and on closing both counters are 0.
C2_ClosesAfterHalfOpenSuccesses ==
    [][\A p \in Providers :
        (circuits[p].state = HALF_OPEN /\ circuits'[p].state = CLOSED
            /\ lastCall'.op # "reset") =>
            /\ halfOpenSucc'[p] >= SUCCESS_THRESHOLD
            /\ circuits'[p].failures = 0
            /\ circuits'[p].successes = 0]_vars

\* C3: a can_execute call on an OPEN breaker is rejected with a reason, and leaves the
\* breaker as it is, while less than RECOVERY_TIMEOUT_SECONDS has elapsed since the
\* latched failure time; at or after the timeout it is admitted and the breaker
\* moves to HALF_OPEN.
C3_OpenRejectsUntilTimeout ==
    [][\A p \in Providers :
        (lastCall'.op = "can_execute" /\ lastCall'.provider = p
            /\ circuits[p].state = OPEN) =>
            IF now - circuits[p].last_failure_time < RECOVERY_TIMEOUT_SECONDS
            THEN /\ ~lastCall'.allowed
                 /\ lastCall'.reason # "None"
                 /\ circuits'[p] = circuits[p]
            ELSE /\ lastCall'.allowed
                 /\ circuits'[p].state = HALF_OPEN]_vars

\* a can_execute call has just been admitted on a breaker that was OPEN, exactly
\* RECOVERY_TIMEOUT_SECONDS after the latched failure
C3_Witness ==
    \E p \in Providers :
        /\ lastCall.op = "can_execute" /\ lastCall.provider = p
        /\ lastCall.from = OPEN /\ lastCall.allowed
        /\ circuits[p].state = HALF_OPEN
        /\ now - circuits[p].last_failure_time = RECOVERY_TIMEOUT_SECONDS

\* C4: one record_failure in HALF_OPEN moves the breaker to OPEN, resets the success
\* counter, and latches the failure time again, so that no can_execute is admitted
\* before a full RECOVERY_TIMEOUT_SECONDS has passed from that failure.
C4_HalfOpenFailureReopens ==
    [][\A p \in Providers :
        (lastCall'.op = "record_failure" /\ lastCall'.provider = p
            /\ circuits[p].state = HALF_OPEN) =>
            /\ circuits'[p].state = OPEN
            /\ circuits'[p].successes = 0
            /\ circuits'[p].last_failure_time = now
            /\ \A t \in now .. (now + RECOVERY_TIMEOUT_SECONDS - 1) :
                    ~CanExecute(circuits'[p], t).allowed
            /\ CanExecute(circuits'[p], now + RECOVERY_TIMEOUT_SECONDS).allowed]_vars

\* a failure has just reopened a HALF_OPEN breaker that had counted a success
C4_Witness ==
    \E p \in Providers :
        /\ lastCall.op = "record_failure" /\ lastCall.provider = p
        /\ lastCall.from = HALF_OPEN
        /\ circuits[p].state = OPEN
        /\ halfOpenSucc[p] = 0 /\ circuits[p].failures > FAILURE_THRESHOLD

AllowedTransitions ==
    {<<CLOSED, OPEN>>, <<OPEN, HALF_OPEN>>, <<HALF_OPEN, CLOSED>>, <<HALF_OPEN, OPEN>>}

\* C5: reset aside, a call changes the breaker state only along CLOSED->OPEN,
\* OPEN->HALF_OPEN, HALF_OPEN->CLOSED, HALF_OPEN->OPEN, and a call for one provider
\* leaves the breaker of every other provider as it was.
C5_OnlyLegalTransitions ==
    [][/\ \A q \in Providers : q # lastCall'.provider => circuits'[q] = circuits[q]
       /\ lastCall'.op # "reset" =>
            \A p \in Providers :
                circuits'[p].state # circuits[p].state =>
                    <<circuits[p].state, circuits'[p].state>> \in AllowedTransitions]_vars

\* one provider is HALF_OPEN after opening, another is CLOSED again after a recovery
C5_Witness ==
    \E p, q \in Providers :
        /\ p # q
        /\ circuits[p].state = HALF_OPEN
        /\ circuits[q].state = CLOSED
        /\ circuits[q].failures = 0 /\ circuits[q].last_failure_time # NoTime

---------------------------------------------------------------------------
(* Model selection: model_selection/{types,model_registry,capability_extractor, *)
(* scoring_engine,policy_enforcer,model_selector}.py.                           *)
(* Weights and scores are kept exact in scaled integers: an importance weight   *)
(* w is held as 10*w, a scoring weight as 100*w, and a capability score as the  *)
(* fraction num/den with den the profile's total weight.                        *)

Capabilities ==
    {"reasoning", "coding", "long_context", "summarization", "planning",
     "structured_output", "multimodal", "speed", "web_search", "real_time_data"}

\* ModelCapabilities defaults
DefaultCapabilities ==
    [c \in Capabilities |->
        IF c \in {"multimodal", "web_search", "real_time_data"} THEN 0 ELSE 5]

ModelCapabilities(given) ==
    [c \in Capabilities |->
        IF c \in DOMAIN given THEN given[c] ELSE DefaultCapabilities[c]]

CostOrder == <<"free", "low", "medium", "high">>

CostIndex(level) == CHOOSE i \in 1..Len(CostOrder) : CostOrder[i] = level

\* the fleet the registries of the model are drawn from, in configuration order
Catalog ==
    << [name |-> "gpt-4-turbo", provider |-> "openai", cost_level |-> "high",
        latency |-> "medium", max_tokens |-> 128000, available |-> TRUE,
        capabilities |-> ModelCapabilities(
            [reasoning |-> 9, coding |-> 9, summarization |-> 8])],
       [name |-> "llama3:8b", provider |-> "ollama", cost_level |-> "free",
        latency |-> "fast", max_tokens |-> 8000, available |-> TRUE,
        capabilities |-> ModelCapabilities(
            [reasoning |-> 6, coding |-> 6, summarization |-> 6])],
       [name |-> "gpt-3.5-turbo", provider |-> "openai", cost_level |-> "low",
        latency |-> "fast", max_tokens |-> 16000, available |-> TRUE,
        capabilities |-> ModelCapabilities(
            [reasoning |-> 6, coding |-> 6, speed |-> 9])],
       [name |-> "llama3:70b", provider |-> "ollama", cost_level |-> "free",
        latency |-> "slow", max_tokens |-> 8000, available |-> TRUE,
        capabilities |-> ModelCapabilities(
            [reasoning |-> 8, coding |-> 8, summarization |-> 8])] >>

\* ModelRegistry.get_model
GetModel(reg, name) ==
    IF \E i \in 1..Len(reg) : reg[i].name = name
    THEN reg[CHOOSE i \in 1..Len(reg) : reg[i].name = name]
    ELSE [name |-> "None"]

\* ModelRegistry.get_available_models
GetAvailableModels(reg) == SelectSeq(reg, LAMBDA m : m.available)

\* ModelRegistry.get_default_model(), called without a provider: the first OpenAI model
GetDefaultModel(reg) ==
    LET openai_models == SelectSeq(reg, LAMBDA m : m.provider = "openai")
    IN  IF openai_models # <<>> THEN openai_models[1] ELSE [name |-> "None"]

\* ROLE_CAPABILITIES
ROLE_CAPABILITIES ==
    [Engineer |-> [required |-> [coding |-> 9, reasoning |-> 7],
                   preferred |-> [structured_output |-> 5], min_score |-> 7],
     Analyst  |-> [required |-> [reasoning |-> 8, summarization |-> 7],
                   preferred |-> [long_context |-> 5], min_score |-> 6],
     Writer   |-> [required |-> [summarization |-> 8],
                   preferred |-> [long_context |-> 4], min_score |-> 5],
     Planner  |-> [required |-> [planning |-> 8, reasoning |-> 6],
                   preferred |-> [structured_output |-> 5], min_score |-> 6]]

\* _extract_from_text, for the inputs of the model: weight = min(1.0, 0.3 + 0.2 * matches)
TextCapabilities ==
    [none    |-> [c \in {} |-> 0],
     coding  |-> [coding |-> 7],
     summary |-> [summarization |-> 5, long_context |-> 7]]

Weight(caps, c) == IF c \in DOMAIN caps THEN caps[c] ELSE 0

Max(a, b) == IF a >= b THEN a ELSE b

\* CapabilityExtractor.extract: required_capabilities as capability -> weight (0: absent)
Extract(req) ==
    LET text == TextCapabilities[req.text_caps]
        known == req.role \in DOMAIN ROLE_CAPABILITIES
        role == IF known THEN ROLE_CAPABILITIES[req.role]
                ELSE [required |-> [c \in {} |-> 0], preferred |-> [c \in {} |-> 0],
                      min_score |-> 5]
        merged == [c \in Capabilities |->
                    IF c \in DOMAIN role.required
                    THEN Max(Weight(text, c), role.required[c])
                    ELSE IF c \in DOMAIN text THEN text[c]
                    ELSE Weight(role.preferred, c)]
    IN  [required_capabilities |-> merged,
         min_capability_score |-> role.min_score,
         max_cost_level |-> "high",
         requires_local |-> req.sensitive,
         context_length_needed |-> Max(4000, req.context_length)]

\* ScoringEngine._check_disqualification
CheckDisqualification(model, profile) ==
    IF ~model.available THEN "Model is not available"
    ELSE IF profile.requires_local /\ model.provider # "ollama"
    THEN "Task requires local model for sensitive content"
    ELSE IF model.max_tokens < profile.context_length_needed
    THEN "Insufficient context length"
    ELSE IF CostIndex(model.cost_level) > CostIndex(profile.max_cost_level)
    THEN "Cost level exceeds maximum"
    ELSE "None"

\* the total weight of the profile: the denominator of every capability score
TotalWeight(profile) ==
    IF \A c \in Capabilities : profile.required_capabilities[c] = 0
    THEN 5
    ELSE SumOver(Capabilities, profile.required_capabilities)

\* ScoringEngine._calculate_capability_score, times TotalWeight(profile)
CapabilityNum(model, profile) ==
    IF \A c \in Capabilities : profile.required_capabilities[c] = 0
    THEN SumOver({"reasoning", "coding", "summarization", "planning",
                  "structured_output"}, model.capabilities)
    ELSE SumOver(Capabilities,
                 [c \in Capabilities |->
                    model.capabilities[c] * profile.required_capabilities[c]])

\* LATENCY_SCORES, COST_SCORES, reliability_by_provider
SpeedScore(model) ==
    CASE model.latency = "fast" -> 10 [] model.latency = "medium" -> 6
      [] model.latency = "slow" -> 3 [] OTHER -> 5

CostScore(model) ==
    CASE model.cost_level = "free" -> 10 [] model.cost_level = "low" -> 8
      [] model.cost_level = "medium" -> 5 [] model.cost_level = "high" -> 2
      [] OTHER -> 5

ReliabilityScore(model) ==
    CASE model.provider \in {"openai", "anthropic"} -> 9
      [] model.provider = "groq" -> 7 [] model.provider = "ollama" -> 6
      [] OTHER -> 5

\* ScoringEngine._score_model with DEFAULT_WEIGHTS; total_score is held times
\* 100 * TotalWeight(profile), capability_score times TotalWeight(profile)
ScoreModel(model, profile) ==
    LET dq == CheckDisqualification(model, profile)
        den == TotalWeight(profile)
        num == CapabilityNum(model, profile)
    IN  IF dq # "None"
        THEN [model_name |-> model.name, provider |-> model.provider,
              total_score |-> 0, capability_score |-> 0,
              meets_requirements |-> FALSE, disqualification_reason |-> dq]
        ELSE [model_name |-> model.name, provider |-> model.provider,
              total_score |-> 40 * num + den * (20 * SpeedScore(model)
                              + 30 * CostScore(model) + 10 * ReliabilityScore(model)),
              capability_score |-> num,
              meets_requirements |-> num >= profile.min_capability_score * den,
              disqualification_reason |-> "None"]

\* tuple comparison of Python sort keys
RECURSIVE KeyLess(_, _)
KeyLess(a, b) ==
    IF a = <<>> \/ b = <<>> THEN FALSE
    ELSE IF Head(a) # Head(b) THEN Head(a) < Head(b)
    ELSE KeyLess(Tail(a), Tail(b))

\* list.sort(key=..., reverse=True) on a sequence of [key, val]: descending and stable
RECURSIVE InsertDesc(_, _)
InsertDesc(sorted, x) ==
    IF sorted = <<>> THEN <<x>>
    ELSE IF KeyLess(Head(sorted).key, x.key)
         THEN <<x>> \o sorted
         ELSE <<Head(sorted)>> \o InsertDesc(Tail(sorted), x)

RECURSIVE SortKeyed(_)
SortKeyed(keyed) ==
    IF keyed = <<>> THEN <<>>
    ELSE InsertDesc(SortKeyed(SubSeq(keyed, 1, Len(keyed) - 1)), keyed[Len(keyed)])

SortDesc(keyed) ==
    LET sorted == SortKeyed(keyed)
    IN  [i \in 1..Len(sorted) |-> sorted[i].val]

Bool(b) == IF b THEN 1 ELSE 0

ScoreKey(s) == <<Bool(s.meets_requirements), s.total_score>>

\* ScoringEngine.score_models
ScoreModels(models, profile) ==
    SortDesc([i \in 1..Len(models) |->
                LET score == ScoreModel(models[i], profile)
                IN  [key |-> ScoreKey(score), val |-> score]])

\* PolicyEnforcer._apply_local_preference with the default threshold 6: the boost of
\* 0.5 is 50 * TotalWeight in the scale of total_score
ApplyLocalPreference(scores, den) ==
    SortDesc([i \in 1..Len(scores) |->
                LET boosted ==
                        IF scores[i].provider = "ollama"
                           /\ scores[i].capability_score >= 6 * den
                        THEN [scores[i] EXCEPT !.total_score = @ + 50 * den]
                        ELSE scores[i]
                IN  [key |-> ScoreKey(boosted), val |-> boosted]])

\* PolicyEnforcer._apply_provider_priority
ApplyProviderPriority(scores, priority) ==
    LET Priority(s) ==
            IF \E i \in 1..Len(priority) : priority[i] = s.provider
            THEN (CHOOSE i \in 1..Len(priority) : priority[i] = s.provider) - 1
            ELSE 999
        PriorityKey(s) ==
            <<Bool(s.meets_requirements), s.total_score, 0 - Priority(s)>>
    IN  SortDesc([i \in 1..Len(scores) |->
                    [key |-> PriorityKey(scores[i]), val |-> scores[i]]])

\* PolicyEnforcer.filter_by_policy; pol.restricted is what _check_restrictions
\* returned for the input ({}: no pattern matched)
FilterByPolicy(scores, pol, den) ==
    LET f1 == IF pol.restricted # {}
              THEN SelectSeq(scores, LAMBDA sc : sc.provider \in pol.restricted)
              ELSE scores
        f2 == IF pol.prefer_local THEN ApplyLocalPreference(f1, den) ELSE f1
    IN  IF pol.priority # <<>> THEN ApplyProviderPriority(f2, pol.priority) ELSE f2

SelectionError(msg) ==
    [kind |-> "error", model_name |-> "", provider |-> "none", score |-> 0,
     alternatives |-> <<>>, selection_reason |-> msg, requires_local |-> FALSE]

\* ModelSelector.select_model
SelectModel(reg, pol, req) ==
    LET profile == Extract(req)
        models == GetAvailableModels(reg)
        scores == ScoreModels(models, profile)
        filtered == FilterByPolicy(scores, pol, TotalWeight(profile))
        default == GetDefaultModel(reg)
    IN  IF models = <<>> THEN SelectionError("No models available in registry")
        ELSE IF filtered = <<>> \/ ~filtered[1].meets_requirements
        THEN IF default.name # "None"
             THEN [kind |-> "selected", model_name |-> default.name,
                   provider |-> default.provider, score |-> 0, alternatives |-> <<>>,
                   selection_reason |-> "Fallback to default model (no suitable match)",
                   requires_local |-> profile.requires_local]
             ELSE SelectionError("No suitable model found and no default available")
        ELSE [kind |-> "selected", model_name |-> filtered[1].model_name,
              provider |-> filtered[1].provider, score |-> filtered[1].total_score,
              alternatives |->
                [i \in 1..(IF Len(filtered) > 5 THEN 4 ELSE Len(filtered) - 1) |->
                    filtered[i + 1].model_name],
              selection_reason |-> "Score",
              requires_local |-> profile.requires_local]

\* the registries of the model: the models of Catalog at the indices I, in
\* configuration order, those at the indices U marked unavailable
RegistryOf(I, U) ==
    LET tagged == [i \in 1..Len(Catalog) |->
                    <<i, [Catalog[i] EXCEPT !.available = (i \notin U)]>>]
        kept == SelectSeq(tagged, LAMBDA t : t[1] \in I)
    IN  [k \in 1..Len(kept) |-> kept[k][2]]

Registries ==
    {RegistryOf(I, U) : <<I, U>> \in
        {<<I, U>> \in (SUBSET (1..Len(Catalog))) \X (SUBSET (1..Len(Catalog))) :
            U \subseteq I /\ Cardinality(U) <= 1}}

DefaultPriority == <<"ollama", "groq", "openai", "anthropic">>

Policies ==
    [prefer_local : BOOLEAN, restricted : {{}, {"ollama"}},
     priority : {<<>>, DefaultPriority},
     max_retries : {2}, fallback_enabled : {TRUE}]

Requests ==
    [role : {"Engineer", "Analyst", "Writer", "Planner", "none"},
     text_caps : DOMAIN TextCapabilities,
     sensitive : BOOLEAN,
     context_length : {506, 10000}]

\* the breaker while another subsystem runs
CBIdle ==
    /\ circuits = [p \in Providers |-> CircuitBreakerStats]
    /\ now = 1
    /\ lastCall = NoCall
    /\ consecFailures = [p \in Providers |-> 0]
    /\ halfOpenSucc = [p \in Providers |-> 0]

SelInit ==
    /\ CBIdle
    /\ TaskIdle
    /\ PlanIdle
    /\ registry \in Registries
    /\ policy \in Policies
    /\ request \in Requests
    /\ selected = NoSelection

select_model ==
    /\ selected = NoSelection
    /\ selected' = SelectModel(registry, policy, request)
    /\ UNCHANGED <<registry, policy, request, cbVars, taskVars, planVars>>

SelNext == select_model

SpecSel == SelInit /\ [][SelNext]_vars

\* C7: whenever the extracted profile requires a local model, select_model returns a
\* model of the local vendor (ollama), never an external one.
C7_SensitiveStaysLocal ==
    (selected.kind = "selected" /\ selected.requires_local) => selected.provider = "ollama"

---------------------------------------------------------------------------
(* Cost engine: cost_engine.py, class CostEngine.  The engine computes in   *)
(* floats; the model keeps every amount exact, a rate in 1/RateUnit credit  *)
(* and a product of tokens and rate in 1/CreditUnit credit.                 *)

RateUnit == 100
CreditUnit == 1000 * RateUnit

\* FALLBACK_CREDITS_PER_1K, in 1/RateUnit credit
FALLBACK_CREDITS_PER_1K ==
    [free |-> [input |-> 0, output |-> 0],
     low |-> [input |-> 1 * RateUnit, output |-> 2 * RateUnit],
     medium |-> [input |-> 5 * RateUnit, output |-> 10 * RateUnit],
     high |-> [input |-> 25 * RateUnit, output |-> 50 * RateUnit]]

DEFAULT_INPUT_TOKENS == 1000
DEFAULT_OUTPUT_TOKENS == 500

\* `if model.pricing:` - a descriptor carries a pricing pair or none
HasPricing(model) == "pricing" \in DOMAIN model

\* CostEngine.get_pricing
GetPricing(model) ==
    IF HasPricing(model)
    THEN [input |-> model.pricing.credits_per_1k_input,
          output |-> model.pricing.credits_per_1k_output]
    ELSE IF model.cost_level \in DOMAIN FALLBACK_CREDITS_PER_1K
    THEN FALLBACK_CREDITS_PER_1K[model.cost_level]
    ELSE FALLBACK_CREDITS_PER_1K["medium"]

\* (tokens / 1000) * input_rate + (tokens / 1000) * output_rate, in 1/CreditUnit credit
TokenCredits(model, input_tokens, output_tokens) ==
    input_tokens * GetPricing(model).input + output_tokens * GetPricing(model).output

\* int(x + 0.99) of a non-negative amount
IntPlus99(amount) == (amount + 99 * (CreditUnit \div 100)) \div CreditUnit

\* round(x) of a non-negative amount: to the nearest integer, a tie to the even one
Round(amount) ==
    LET q == amount \div CreditUnit
        r == amount % CreditUnit
    IN  IF 2 * r < CreditUnit THEN q
        ELSE IF 2 * r > CreditUnit THEN q + 1
        ELSE IF q % 2 = 0 THEN q ELSE q + 1

\* CostEngine.estimate_credits_for_model
EstimateCreditsForModel(model, estimated_input_tokens, estimated_output_tokens) ==
    LET total == IntPlus99(TokenCredits(model, estimated_input_tokens,
                                        estimated_output_tokens))
    IN  IF model.cost_level # "free" /\ total < 1 THEN 1 ELSE total

\* calculate_credits_for_model without the minimum of one credit
RoundedCreditsForModel(model, input_tokens, output_tokens) ==
    Round(TokenCredits(model, input_tokens, output_tokens))

\* CostEngine.calculate_credits_for_model
CalculateCreditsForModel(model, input_tokens, output_tokens) ==
    LET total == Round(TokenCredits(model, input_tokens, output_tokens))
    IN  IF model.cost_level # "free" /\ total < 1 THEN 1 ELSE total

---------------------------------------------------------------------------
(* Credit rate limiter: rate_limiter.py, class CreditRateLimiter.  The      *)
(* state of one office; an instant is a number of ticks.                    *)

\* the resolution of the clocks
TicksPerSecond == 2

\* timedelta(minutes=1), timedelta(hours=1), timedelta(days=1), in ticks
OneMinute == 60 * TicksPerSecond
OneHour == 60 * OneMinute
OneDay == 24 * OneHour

DEFAULT_HOURLY_LIMIT == 1000
DEFAULT_DAILY_LIMIT == 10000
COOLDOWN_SECONDS == 60

\* Optional[int] = None for a limit; `hourly_limit or DEFAULT` treats None and 0 alike
NoLimit == 0

\* datetime.day of an instant: the clock starts at 00:00 on the first day of a
\* month of 31 days
DayOfMonth(t) == 1 + ((t \div OneDay) % 31)

\* sum(r.credits for r in state.hourly_records)
RECURSIVE SumCredits(_)
SumCredits(records) ==
    IF records = <<>> THEN 0 ELSE Head(records).credits + SumCredits(Tail(records))

\* CreditRateLimiter._cleanup_old_records
CleanupOldRecords(state, t) ==
    [hourly_records |->
        SelectSeq(state.hourly_records, LAMBDA r : r.timestamp > t - OneHour),
     daily_credits |->
        IF DayOfMonth(t) # state.last_reset_day THEN 0 ELSE state.daily_credits,
     last_reset_day |-> DayOfMonth(t)]

\* BudgetCheckResult, with the state the call leaves behind
BudgetCheckResult(allowed, action, reason, state, hourly_limit, daily_limit, credits_remaining, cooldown_seconds) ==
    [allowed |-> allowed, action |-> action, reason |-> reason,
     current_hourly_usage |-> SumCredits(state.hourly_records),
     hourly_limit |-> hourly_limit,
     current_daily_usage |-> state.daily_credits, daily_limit |-> daily_limit,
     credits_remaining |-> credits_remaining, cooldown_seconds |-> cooldown_seconds,
     state |-> state]

\* check_budget with the hourly limit compared against the usage alone
CheckBudgetUsageOnly(office, t, estimated_credits, hourly_limit_arg, daily_limit_arg, credits_remaining, budget_pause_enabled) ==
    LET hourly_limit == IF hourly_limit_arg = NoLimit THEN DEFAULT_HOURLY_LIMIT
                        ELSE hourly_limit_arg
        daily_limit == IF daily_limit_arg = NoLimit THEN DEFAULT_DAILY_LIMIT
                       ELSE daily_limit_arg
        state == CleanupOldRecords(office, t)
    IN  IF SumCredits(state.hourly_records) > hourly_limit
        THEN BudgetCheckResult(~budget_pause_enabled,
                 IF budget_pause_enabled THEN "block" ELSE "warn",
                 "Hourly limit exceeded", state, hourly_limit, daily_limit,
                 credits_remaining,
                 IF budget_pause_enabled THEN COOLDOWN_SECONDS ELSE 0)
        ELSE BudgetCheckResult(TRUE, "allow", "None", state, hourly_limit,
                 daily_limit, credits_remaining, 0)

\* CreditRateLimiter.check_budget
CheckBudget(office, t, estimated_credits, hourly_limit_arg, daily_limit_arg, credits_remaining, budget_pause_enabled) ==
    LET hourly_limit == IF hourly_limit_arg = NoLimit THEN DEFAULT_HOURLY_LIMIT
                        ELSE hourly_limit_arg
        daily_limit == IF daily_limit_arg = NoLimit THEN DEFAULT_DAILY_LIMIT
                       ELSE daily_limit_arg
        state == CleanupOldRecords(office, t)
        current_hour_usage == SumCredits(state.hourly_records)
    IN  IF current_hour_usage + estimated_credits > hourly_limit
        THEN BudgetCheckResult(~budget_pause_enabled,
                 IF budget_pause_enabled THEN "block" ELSE "warn",
                 "Hourly limit exceeded", state, hourly_limit, daily_limit,
                 credits_remaining,
                 IF budget_pause_enabled THEN COOLDOWN_SECONDS ELSE 0)
        ELSE IF state.daily_credits + estimated_credits > daily_limit
        THEN BudgetCheckResult(~budget_pause_enabled,
                 IF budget_pause_enabled THEN "block" ELSE "warn",
                 "Daily limit exceeded", state, hourly_limit, daily_limit,
                 credits_remaining,
                 IF budget_pause_enabled THEN COOLDOWN_SECONDS ELSE 0)
        ELSE IF credits_remaining < estimated_credits
        THEN BudgetCheckResult(FALSE, "block", "Insufficient credits", state,
                 hourly_limit, daily_limit, credits_remaining, 0)
        ELSE BudgetCheckResult(TRUE, "allow", "None", state, hourly_limit,
                 daily_limit, credits_remaining, 0)

\* CreditRateLimiter.record_consumption
RecordConsumption(office, t, credits) ==
    LET state == CleanupOldRecords(office, t)
    IN  [state EXCEPT
           !.hourly_records = Append(@, [timestamp |-> t, credits |-> credits]),
           !.daily_credits = @ + credits]

---------------------------------------------------------------------------
(* execute_task: orchestrator.py, AgentOrchestrator.execute_task, with      *)
(* ModelSelector.execute_with_fallback (model_selector.py) inlined as the   *)
(* loop over the candidates, and with the cost engine and the credit rate   *)
(* limiter called as the handler calls them.  What the collaborators        *)
(* outside the model answer (agent lookup, credit service, anomaly          *)
(* detector, providers) is chosen nondeterministically; the database        *)
(* accepts every write.                                                     *)

\* the clock of a task run: late enough for a breaker to have timed out
TaskNow == 2 * RECOVERY_TIMEOUT_SECONDS + 1

\* the breaker states a task can find: fresh, one failure short of opening, open and
\* still latched, open and timed out, half-open one success short of closing
BreakerStates ==
    { CircuitBreakerStats,
      [failures |-> FAILURE_THRESHOLD - 1, successes |-> 0,
       last_failure_time |-> TaskNow - 1, state |-> CLOSED],
      [failures |-> FAILURE_THRESHOLD, successes |-> 0,
       last_failure_time |-> TaskNow - 1, state |-> OPEN],
      [failures |-> FAILURE_THRESHOLD, successes |-> 0,
       last_failure_time |-> TaskNow - RECOVERY_TIMEOUT_SECONDS, state |-> OPEN],
      [failures |-> FAILURE_THRESHOLD, successes |-> SUCCESS_THRESHOLD - 1,
       last_failure_time |-> TaskNow - RECOVERY_TIMEOUT_SECONDS, state |-> HALF_OPEN] }

TaskRegistries ==
    { RegistryOf(1..Len(Catalog), {}), RegistryOf({1, 2}, {}), RegistryOf({2, 4}, {}) }

TaskPolicies ==
    [prefer_local : BOOLEAN, restricted : {{}}, priority : {DefaultPriority},
     max_retries : {0, 2}, fallback_enabled : BOOLEAN]

TaskRequests ==
    [role : {"Engineer", "Writer"}, text_caps : {"none"}, sensitive : BOOLEAN,
     context_length : {506}]

\* the instant a task runs at
TaskTime == OneHour

\* what the rate limiter holds of the office when a task starts: nothing, or an
\* hour's budget consumed a tick ago
TaskOfficeStates ==
    { OfficeUsageState,
      RecordConsumption(OfficeUsageState, TaskTime - 1, DEFAULT_HOURLY_LIMIT) }

\* the balances the credit service reports
LedgerBalances == {0, DEFAULT_HOURLY_LIMIT}

\* the token_usage a provider reports with its output
TokenUsages ==
    { [prompt_tokens |-> 0, completion_tokens |-> 0],
      [prompt_tokens |-> 120, completion_tokens |-> 380] }

TaskInit ==
    /\ PlanIdle
    /\ CreditIdle
    /\ CostIdle
    /\ officeState \in TaskOfficeStates
    /\ datetimeNow = TaskTime
    /\ lastBudget = NoBudgetCall
    /\ registry \in TaskRegistries
    /\ policy \in TaskPolicies
    /\ request \in TaskRequests
    /\ selected = NoSelection
    /\ circuits \in [Providers -> BreakerStates]
    /\ now = TaskNow
    /\ lastCall = NoCall
    /\ consecFailures = [p \in Providers |-> 0]
    /\ halfOpenSucc = [p \in Providers |-> 0]
    /\ pc = "start"
    /\ dbStatus = "pending"
    /\ response = NoResponse
    /\ attempt = 0
    /\ modelsTried = <<>>
    /\ generated = <<>>
    /\ raised = "None"

\* an early `return ExecuteResponse(status=FAILED, error=...)` after the database write
ReturnFailed(error) ==
    /\ dbStatus' = "failed"
    /\ response' = [status |-> "failed", error |-> error, output |-> "None"]
    /\ pc' = "returned"

\* update_task_status(THINKING), _load_agent_context, update_task_status(WORKING)
load_agent_context ==
    /\ pc = "start"
    /\ \E found \in BOOLEAN :
         IF found
         THEN /\ dbStatus' = "working"
              /\ pc' = "select"
              /\ UNCHANGED response
         ELSE /\ dbStatus' = "thinking"
              /\ response' = [status |-> "failed", error |-> "Agent not found",
                               output |-> "None"]
              /\ pc' = "returned"
    /\ UNCHANGED <<cbVars, selVars, attempt, modelsTried, generated, raised,
                   creditVars, budgetVars, costVars, traceVars>>

\* the step after the estimate with the credit checks skipped for every model
AfterEstimateUnchecked(model_def) == "breaker"

\* `if not is_free_model:` - the step after the estimate
AfterEstimate(model_def) ==
    IF model_def.cost_level = "free" THEN "breaker" ELSE "check_balance"

\* select_model, the pricing lookup and the estimate; a free model skips the
\* credit checks
task_select_model ==
    /\ pc = "select"
    /\ LET sel == SelectModel(registry, policy, request)
           model_def == GetModel(registry, sel.model_name)
       IN  /\ selected' = sel
           /\ IF sel.kind = "error"
              THEN /\ raised' = sel.selection_reason
                   /\ pc' = "except"
                   /\ UNCHANGED estimatedCredits
              ELSE /\ raised' = raised
                   /\ estimatedCredits' =
                        EstimateCreditsForModel(model_def, DEFAULT_INPUT_TOKENS,
                                                DEFAULT_OUTPUT_TOKENS)
                   /\ pc' = AfterEstimate(model_def)
    /\ UNCHANGED <<cbVars, registry, policy, request, dbStatus, response, attempt,
                   modelsTried, generated, creditCheck, budgetResult, tokenUsage,
                   creditsConsumed, consumeCalls, budgetVars, costVars, traceVars>>

\* CreditClient.check_balance: what the service answered (status 200), a status
\* other than 200, or an exception of the transport
CheckBalance(outcome, balance, required_credits) ==
    CASE outcome = "ok" ->
           [has_sufficient |-> balance >= required_credits,
            current_balance |-> balance, error |-> "None"]
      [] outcome = "api_error" ->
           [has_sufficient |-> FALSE, current_balance |-> 0, error |-> "API error"]
      [] outcome = "exception" ->
           [has_sufficient |-> TRUE, current_balance |-> 0,
            error |-> "transport error"]

\* `if not budget_result.allowed:` - the budget result that fails the task
BudgetStopsTask(budget_result) == ~budget_result.allowed

\* credit_client.check_balance, and the return on a balance known to be short
check_balance ==
    /\ pc = "check_balance"
    /\ \E outcome \in {"ok", "api_error", "exception"}, balance \in LedgerBalances :
         LET credit_check == CheckBalance(outcome, balance, estimatedCredits)
         IN  /\ creditCheck' = credit_check
             /\ calls' = Append(calls, "check_balance")
             /\ IF ~credit_check.has_sufficient /\ credit_check.error = "None"
                THEN ReturnFailed("Insufficient credits")
                ELSE /\ pc' = "check_budget"
                     /\ UNCHANGED <<dbStatus, response>>
    /\ UNCHANGED <<cbVars, selVars, attempt, modelsTried, generated, raised,
                   estimatedCredits, budgetResult, tokenUsage, creditsConsumed,
                   consumeCalls, budgetVars, costVars, metricsSaved>>

\* rate_limiter.check_budget(office_id, estimated_credits,
\* credits_remaining=credit_check.current_balance)
check_budget ==
    /\ pc = "check_budget"
    /\ LET budget_result ==
             CheckBudget(officeState, datetimeNow, estimatedCredits, NoLimit, NoLimit,
                         creditCheck.current_balance, FALSE)
       IN  /\ officeState' = budget_result.state
           /\ budgetResult' = [allowed |-> budget_result.allowed,
                               action |-> budget_result.action,
                               reason |-> budget_result.reason]
           /\ lastBudget' = [op |-> "check_budget"]
           /\ calls' = Append(calls, "check_budget")
           /\ IF BudgetStopsTask(budget_result)
              THEN ReturnFailed("Rate limit exceeded")
              ELSE /\ pc' = "check_anomaly"
                   /\ UNCHANGED <<dbStatus, response>>
    /\ UNCHANGED <<cbVars, selVars, attempt, modelsTried, generated, raised,
                   estimatedCredits, creditCheck, tokenUsage, creditsConsumed,
                   consumeCalls, datetimeNow, costVars, metricsSaved>>

\* anomaly_detector.check_task_credits
check_task_credits ==
    /\ pc = "check_anomaly"
    /\ \E task_ok \in BOOLEAN :
         IF task_ok
         THEN /\ pc' = "breaker"
              /\ UNCHANGED <<dbStatus, response>>
         ELSE ReturnFailed("Anomaly detected")
    /\ calls' = Append(calls, "check_task_credits")
    /\ UNCHANGED <<cbVars, selVars, attempt, modelsTried, generated, raised,
                   creditVars, budgetVars, costVars, metricsSaved>>

\* circuit_breaker.can_execute(selected.provider): a rejection fails the task
breaker_check ==
    /\ pc = "breaker"
    /\ LET p == selected.provider
           r == CanExecute(circuits[p], now)
       IN  /\ circuits' = [circuits EXCEPT ![p] = r.stats]
           /\ lastCall' = [op |-> "can_execute", provider |-> p,
                           from |-> circuits[p].state, allowed |-> r.allowed,
                           reason |-> r.reason]
           /\ IF r.allowed
              THEN /\ pc' = "generate"
                   /\ UNCHANGED <<dbStatus, response>>
              ELSE ReturnFailed(r.reason)
    /\ calls' = Append(calls, "can_execute")
    /\ UNCHANGED <<now, consecFailures, halfOpenSucc, selVars, attempt, modelsTried,
                   generated, raised, creditVars, budgetVars, costVars, metricsSaved>>

\* execute_with_fallback: candidates = [selected.model_name] + selected.alternatives
Candidates == <<selected.model_name>> \o selected.alternatives

\* the loop moves on to the next candidate, or runs out and raises
NextCandidate ==
    IF attempt + 1 >= Len(Candidates) \/ ~policy.fallback_enabled
    THEN /\ raised' = "No models could complete the request"
         /\ pc' = "except"
         /\ attempt' = attempt
    ELSE /\ attempt' = attempt + 1
         /\ UNCHANGED <<raised, pc>>

\* one iteration of the loop of execute_with_fallback
try_candidate ==
    /\ pc = "generate"
    /\ LET model_name == Candidates[attempt + 1]
           model == GetModel(registry, model_name)
       IN  IF model.name = "None"
           THEN NextCandidate /\ UNCHANGED <<modelsTried, generated, tokenUsage, calls>>
           ELSE /\ modelsTried' = Append(modelsTried, model_name)
                /\ \E outcome \in {"no_provider", "unhealthy", "generated", "error"} :
                     CASE outcome \in {"no_provider", "unhealthy"} ->
                            NextCandidate /\ UNCHANGED <<generated, tokenUsage, calls>>
                       [] outcome = "generated" ->
                            /\ generated' = Append(generated, model_name)
                            /\ calls' = Append(calls, "generate")
                            /\ tokenUsage' \in TokenUsages
                            /\ pc' = "consume"
                            /\ UNCHANGED <<attempt, raised>>
                       [] outcome = "error" ->
                            /\ generated' = Append(generated, model_name)
                            /\ calls' = Append(calls, "generate")
                            /\ IF attempt >= policy.max_retries
                               THEN /\ raised' = "All models failed"
                                    /\ pc' = "except"
                                    /\ attempt' = attempt
                               ELSE NextCandidate
                            /\ UNCHANGED tokenUsage
    /\ UNCHANGED <<cbVars, selVars, dbStatus, response, estimatedCredits, creditCheck,
                   budgetResult, creditsConsumed, consumeCalls, budgetVars, costVars,
                   metricsSaved>>

\* the consume step with a failed consume_credits raised to the handler
consume_credits_or_raise ==
    /\ pc = "consume"
    /\ LET model_def == GetModel(registry, selected.model_name)
           credits_consumed ==
             CalculateCreditsForModel(model_def, tokenUsage.prompt_tokens,
                                      tokenUsage.completion_tokens)
       IN  /\ creditsConsumed' = credits_consumed
           /\ IF credits_consumed > 0
              THEN \E success \in BOOLEAN :
                     /\ consumeCalls' = Append(consumeCalls,
                            [credits |-> credits_consumed, success |-> success])
                     /\ IF success
                        THEN /\ officeState' = RecordConsumption(officeState,
                                                   datetimeNow, credits_consumed)
                             /\ lastBudget' = [op |-> "record_consumption"]
                             /\ calls' = calls \o <<"consume_credits",
                                                    "record_consumption">>
                             /\ pc' = "finish"
                             /\ UNCHANGED raised
                        ELSE /\ raised' = "Credit consumption failed"
                             /\ calls' = Append(calls, "consume_credits")
                             /\ pc' = "except"
                             /\ UNCHANGED <<officeState, lastBudget>>
              ELSE /\ pc' = "finish"
                   /\ UNCHANGED <<consumeCalls, officeState, lastBudget, raised, calls>>
    /\ UNCHANGED <<cbVars, selVars, dbStatus, response, attempt, modelsTried,
                   generated, estimatedCredits, creditCheck, budgetResult,
                   tokenUsage, datetimeNow, costVars, metricsSaved>>

\* the actual credits of the selected model for the tokens reported, and the
\* consume step: consume_credits is called for a non-zero amount only; its failure
\* is logged, its success recorded with the rate limiter
consume_credits ==
    /\ pc = "consume"
    /\ LET model_def == GetModel(registry, selected.model_name)
           credits_consumed ==
             CalculateCreditsForModel(model_def, tokenUsage.prompt_tokens,
                                      tokenUsage.completion_tokens)
       IN  /\ creditsConsumed' = credits_consumed
           /\ IF credits_consumed > 0
              THEN \E success \in BOOLEAN :
                     /\ consumeCalls' = Append(consumeCalls,
                            [credits |-> credits_consumed, success |-> success])
                     /\ IF success
                        THEN /\ officeState' = RecordConsumption(officeState,
                                                   datetimeNow, credits_consumed)
                             /\ lastBudget' = [op |-> "record_consumption"]
                             /\ calls' = calls \o <<"consume_credits",
                                                    "record_consumption">>
                        ELSE /\ calls' = Append(calls, "consume_credits")
                             /\ UNCHANGED <<officeState, lastBudget>>
              ELSE UNCHANGED <<consumeCalls, officeState, lastBudget, calls>>
    /\ pc' = "finish"
    /\ UNCHANGED <<cbVars, selVars, dbStatus, response, attempt, modelsTried,
                   generated, raised, estimatedCredits, creditCheck, budgetResult,
                   tokenUsage, datetimeNow, costVars, metricsSaved>>

\* the task is written DONE, the response saved, the metrics persisted and the
\* success recorded against selected.provider
finish_task ==
    /\ pc = "finish"
    /\ LET p == selected.provider
       IN  /\ circuits' = [circuits EXCEPT ![p] = RecordSuccess(@)]
           /\ lastCall' = [op |-> "record_success", provider |-> p,
                           from |-> circuits[p].state, allowed |-> TRUE,
                           reason |-> "None"]
    /\ dbStatus' = "done"
    /\ response' = [status |-> "done", error |-> "None",
                    output |-> generated[Len(generated)]]
    /\ metricsSaved' = Append(metricsSaved,
                          [selected_model |-> generated[Len(generated)],
                           success |-> TRUE])
    /\ pc' = "returned"
    /\ UNCHANGED <<now, consecFailures, halfOpenSucc, selVars, attempt, modelsTried,
                   generated, raised, creditVars, budgetVars, costVars, calls>>

\* except Exception: record_failure for the provider of selected_model_name, if any
task_failed ==
    /\ pc = "except"
    /\ IF selected.model_name # "" /\ GetModel(registry, selected.model_name).name # "None"
       THEN LET p == GetModel(registry, selected.model_name).provider
            IN  /\ circuits' = [circuits EXCEPT ![p] = RecordFailure(@, now)]
                /\ lastCall' = [op |-> "record_failure", provider |-> p,
                                from |-> circuits[p].state, allowed |-> TRUE,
                                reason |-> "None"]
       ELSE UNCHANGED <<circuits, lastCall>>
    /\ ReturnFailed(raised)
    /\ UNCHANGED <<now, consecFailures, halfOpenSucc, selVars, attempt, modelsTried,
                   generated, raised, creditVars, budgetVars, costVars, traceVars>>

TaskNext ==
    \/ load_agent_context /\ UNCHANGED planVars
    \/ task_select_model /\ UNCHANGED planVars
    \/ check_balance /\ UNCHANGED planVars
    \/ check_budget /\ UNCHANGED planVars
    \/ check_task_credits /\ UNCHANGED planVars
    \/ breaker_check /\ UNCHANGED planVars
    \/ try_candidate /\ UNCHANGED planVars
    \/ consume_credits /\ UNCHANGED planVars
    \/ finish_task /\ UNCHANGED planVars
    \/ task_failed /\ UNCHANGED planVars

SpecTask == TaskInit /\ [][TaskNext]_vars

\* C6: when the breaker rejects the provider of the best candidate, the task moves
\* on to the next alternative, and fails only if no alternative remains: with
\* fallback enabled, a task that failed on the breaker's rejection had no
\* alternative whose provider the breaker would have admitted.
C6_BreakerOpenFallsOver ==
    (pc = "returned" /\ response.status = "failed" /\ policy.fallback_enabled
        /\ lastCall.op = "can_execute" /\ ~lastCall.allowed)
    => \A i \in 1..Len(selected.alternatives) :
          ~CanExecute(circuits[GetModel(registry, selected.alternatives[i]).provider],
                      now).allowed

\* C17: when the generation reports zero prompt and zero completion tokens, the
\* actual credit amount is 0, whatever the tier of the model, and consume_credits
\* is not called for the task.
C17_ZeroTokensCostNothing ==
    (pc = "finish" /\ tokenUsage.prompt_tokens = 0 /\ tokenUsage.completion_tokens = 0)
    => (creditsConsumed = 0 /\ consumeCalls = <<>>)

\* C19: when the balance check fails with a transport error, the task is not failed
\* for insufficient credits or for a rate limit: the error is reported and the task
\* goes on towards the generation.
C19_BalanceCheckFailsOpen ==
    creditCheck.error = "transport error"
    => ~(pc = "returned" /\ response.status = "failed"
           /\ response.error \in {"Insufficient credits", "Rate limit exceeded"})

\* C20: when consume_credits fails after a successful generation, the task is still
\* written done and the response returned is done with the output of the model
\* that generated.
C20_ConsumeFailureKeepsResult ==
    (pc = "returned" /\ consumeCalls # <<>>
        /\ ~consumeCalls[Len(consumeCalls)].success)
    => /\ dbStatus = "done"
       /\ response.status = "done"
       /\ response.error = "None"
       /\ response.output = generated[Len(generated)]

\* a task returned done although its one consume_credits call failed, and nothing
\* was recorded with the rate limiter
C20_Witness ==
    /\ pc = "returned"
    /\ Len(consumeCalls) = 1
    /\ ~consumeCalls[1].success
    /\ consumeCalls[1].credits = creditsConsumed
    /\ creditsConsumed > 0
    /\ response.status = "done"
    /\ lastBudget.op # "record_consumption"

\* C21: every run of execute_task that reaches the generation saves exactly one
\* metrics record, with success true when the generation succeeded and success
\* false when every candidate failed.
C21_OneMetricsRecordPerRun ==
    (pc = "returned" /\ generated # <<>>)
    => /\ Len(metricsSaved) = 1
       /\ metricsSaved[1].success = (response.status = "done")

\* C22: whenever execute_task returns a response with status failed, the task's
\* persisted status is failed; a raising adapter leads to such a response.
C22_FailedResponsePersisted ==
    (pc = "returned" /\ response.status = "failed") => dbStatus = "failed"

\* C23: execute_with_fallback raises on a failed generate call only once more than
\* max_retries generate calls have failed: candidates skipped without a generate
\* call do not use up the retry budget.
C23_RetryBudgetCountsFailures ==
    raised = "All models failed" => Len(generated) > policy.max_retries

\* the index of the first generate call among the calls made
FirstGenerate == CHOOSE i \in 1..Len(calls) :
                    calls[i] = "generate" /\ \A j \in 1..(i - 1) : calls[j] # "generate"

---------------------------------------------------------------------------
(* Tool-plan executor: tool_execution/execution_orchestrator.py with        *)
(* tool_registry.py, security_gateway.py, quota_manager.py and              *)
(* result_normalizer.py.  One plan is executed for one user; what an        *)
(* adapter call returns is chosen nondeterministically.  No time passes     *)
(* during a plan: every stamp a plan records is the instant utcnow.         *)

\* ExecutionOrchestrator._adapters after initialize()
Adapters == {"google", "internal"}

\* ToolRegistry._tools: three default tools, and one registered for a vendor that
\* has no adapter; required_inputs is input_schema.required
ToolRegistry ==
    [google_sheets_create |->
        [tool_name |-> "google_sheets_create", vendor |-> "google",
         required_permissions |-> {"google.sheets.write", "google.drive.write"},
         required_inputs |-> {"title"}, retry_policy |-> "exponential",
         max_retries |-> 3],
     text_processing |->
        [tool_name |-> "text_processing", vendor |-> "internal",
         required_permissions |-> {}, required_inputs |-> {"text", "operation"},
         retry_policy |-> "none", max_retries |-> 3],
     google_sheets_read |->
        [tool_name |-> "google_sheets_read", vendor |-> "google",
         required_permissions |-> {"google.sheets.read"},
         required_inputs |-> {"spreadsheet_id", "range"},
         retry_policy |-> "exponential", max_retries |-> 3],
     custom_report |->
        [tool_name |-> "custom_report", vendor |-> "custom",
         required_permissions |-> {}, required_inputs |-> {},
         retry_policy |-> "none", max_retries |-> 3]]

\* ToolRegistry.get_tool
GetTool(tool_name) ==
    IF tool_name \in DOMAIN ToolRegistry THEN ToolRegistry[tool_name]
    ELSE [tool_name |-> "None"]

\* ToolRegistry.validate_tool_exists
ValidateToolExists(tool_name) == tool_name \in DOMAIN ToolRegistry

\* validate_inputs without the required-field check
ValidateInputsToolOnly(tool_name, inputs) == tool_name \in DOMAIN ToolRegistry

\* ToolRegistry.validate_inputs; inputs is the set of the fields given
ValidateInputs(tool_name, inputs) ==
    /\ tool_name \in DOMAIN ToolRegistry
    /\ ToolRegistry[tool_name].required_inputs \subseteq inputs

\* ExecutionOrchestrator._validate_plan: the first step that fails decides
RECURSIVE ValidateSteps(_)
ValidateSteps(steps) ==
    IF steps = <<>> THEN [valid |-> TRUE, error |-> "None"]
    ELSE IF ~ValidateToolExists(Head(steps).tool)
    THEN [valid |-> FALSE, error |-> "Unknown tool"]
    ELSE IF ~ValidateInputs(Head(steps).tool, Head(steps).inputs)
    THEN [valid |-> FALSE, error |-> "Invalid inputs"]
    ELSE ValidateSteps(Tail(steps))

ValidatePlan(p) == ValidateSteps(p.steps)

\* PermissionResult(status=GRANTED, allowed=True)
PermissionGranted ==
    [status |-> "granted", allowed |-> TRUE, missing_permissions |-> {},
     reason |-> "None"]

\* SecurityGateway.validate_oauth_token; a token is absent, expired, short or valid
ValidateOauthToken(user_scopes, vendor) ==
    LET token == user_scopes.oauth_tokens[vendor]
    IN  IF token = "absent"
        THEN [status |-> "denied", allowed |-> FALSE, missing_permissions |-> {},
              reason |-> "No OAuth token"]
        ELSE IF token = "expired"
        THEN [status |-> "token_expired", allowed |-> FALSE, missing_permissions |-> {},
              reason |-> "OAuth token has expired"]
        ELSE IF token = "short"
        THEN [status |-> "token_invalid", allowed |-> FALSE, missing_permissions |-> {},
              reason |-> "Invalid OAuth token"]
        ELSE PermissionGranted

\* SecurityGateway.check_permissions
CheckPermissions(tool, user_scopes) ==
    LET required == tool.required_permissions
        granted == user_scopes.granted_scopes
        missing == required \ granted
    IN  IF required = {} THEN PermissionGranted
        ELSE IF missing # {}
        THEN [status |-> "insufficient_scope", allowed |-> FALSE,
              missing_permissions |-> missing, reason |-> "Missing permissions"]
        ELSE IF tool.vendor # "internal"
        THEN ValidateOauthToken(user_scopes, tool.vendor)
        ELSE PermissionGranted

\* ExecutionOrchestrator._check_all_permissions
RECURSIVE CheckStepsPermissions(_, _)
CheckStepsPermissions(steps, user_scopes) ==
    IF steps = <<>> THEN [allowed |-> TRUE, reason |-> "None"]
    ELSE LET tool == GetTool(Head(steps).tool)
             result == CheckPermissions(tool, user_scopes)
         IN  IF tool.tool_name # "None" /\ ~result.allowed
             THEN [allowed |-> FALSE, reason |-> result.reason]
             ELSE CheckStepsPermissions(Tail(steps), user_scopes)

\* _check_all_permissions that looks at the first step of the plan only
CheckFirstStepPermissions(p, user_scopes) ==
    IF p.steps = <<>> THEN [allowed |-> TRUE, reason |-> "None"]
    ELSE CheckStepsPermissions(<<Head(p.steps)>>, user_scopes)

CheckAllPermissions(p, user_scopes) == CheckStepsPermissions(p.steps, user_scopes)

\* QuotaManager.DEFAULT_QUOTAS
DEFAULT_QUOTAS ==
    [v \in ToolVendor |->
        CASE v \in {"google", "microsoft"} ->
                [requests_per_minute |-> 60, requests_per_hour |-> 1000,
                 requests_per_day |-> 10000, concurrent_requests |-> 10]
          [] v = "aws" ->
                [requests_per_minute |-> 100, requests_per_hour |-> 5000,
                 requests_per_day |-> 50000, concurrent_requests |-> 20]
          [] v = "internal" ->
                [requests_per_minute |-> 120, requests_per_hour |-> 3000,
                 requests_per_day |-> 30000, concurrent_requests |-> 50]
          [] v = "custom" ->
                [requests_per_minute |-> 30, requests_per_hour |-> 500,
                 requests_per_day |-> 5000, concurrent_requests |-> 5]]

\* QuotaManager.get_quota
GetQuota(custom, vendor) ==
    IF vendor \in DOMAIN custom THEN custom[vendor] ELSE DEFAULT_QUOTAS[vendor]

\* _cleanup_records that leaves the hour and day lists alone
CleanupMinuteRecords(state, t) ==
    [state EXCEPT !.minute_records = SelectSeq(@, LAMBDA s : s > t - OneMinute)]

\* QuotaManager._cleanup_records
CleanupRecords(state, t) ==
    [minute_records |-> SelectSeq(state.minute_records, LAMBDA s : s > t - OneMinute),
     hour_records |-> SelectSeq(state.hour_records, LAMBDA s : s > t - OneHour),
     day_records |-> SelectSeq(state.day_records, LAMBDA s : s > t - OneDay)]

\* the seconds of a duration, a started second counted
TimedeltaSecondsCeil(ticks) ==
    ((ticks + TicksPerSecond - 1) \div TicksPerSecond) % (24 * 3600)

\* timedelta.seconds: the whole seconds of a duration, its days left out
TimedeltaSeconds(ticks) == (ticks \div TicksPerSecond) % (24 * 3600)

\* int((tomorrow - now).total_seconds()), tomorrow being the next midnight
SecondsToMidnight(t) == (OneDay - (t % OneDay)) \div TicksPerSecond

\* QuotaManager.check_quota; `state` is the usage state the cleanup leaves
CheckQuota(vendor, use, active, custom, t) ==
    LET quota == GetQuota(custom, vendor)
        state == CleanupRecords(use[vendor], t)
        minute_count == Len(state.minute_records)
        hour_count == Len(state.hour_records)
        day_count == Len(state.day_records)
    IN  IF minute_count >= quota.requests_per_minute
        THEN [allowed |-> FALSE, reason |-> "Rate limit exceeded",
              current_usage |-> minute_count, limit |-> quota.requests_per_minute,
              cooldown_seconds |->
                  Max(0, 60 - TimedeltaSeconds(t - state.minute_records[1])),
              state |-> state]
        ELSE IF hour_count >= quota.requests_per_hour
        THEN [allowed |-> FALSE, reason |-> "Hourly limit exceeded",
              current_usage |-> hour_count, limit |-> quota.requests_per_hour,
              cooldown_seconds |->
                  Max(0, 3600 - TimedeltaSeconds(t - state.hour_records[1])),
              state |-> state]
        ELSE IF day_count >= quota.requests_per_day
        THEN [allowed |-> FALSE, reason |-> "Daily limit exceeded",
              current_usage |-> day_count, limit |-> quota.requests_per_day,
              cooldown_seconds |-> SecondsToMidnight(t), state |-> state]
        ELSE IF active[vendor] >= quota.concurrent_requests
        THEN [allowed |-> FALSE, reason |-> "Too many concurrent requests",
              current_usage |-> active[vendor], limit |-> quota.concurrent_requests,
              cooldown_seconds |-> 1, state |-> state]
        ELSE [allowed |-> TRUE, reason |-> "None",
              current_usage |-> minute_count, limit |-> quota.requests_per_minute,
              cooldown_seconds |-> 0, state |-> state]

\* QuotaManager.record_usage
RecordUsage(state, t) ==
    [minute_records |-> Append(state.minute_records, t),
     hour_records |-> Append(state.hour_records, t),
     day_records |-> Append(state.day_records, t)]

\* ExecutionOrchestrator._check_all_quotas; `use` is the usage the checks leave
RECURSIVE CheckStepsQuotas(_, _, _, _, _)
CheckStepsQuotas(steps, use, active, custom, t) ==
    IF steps = <<>> THEN [allowed |-> TRUE, reason |-> "None", use |-> use]
    ELSE LET tool == GetTool(Head(steps).tool)
         IN  IF tool.tool_name = "None"
             THEN CheckStepsQuotas(Tail(steps), use, active, custom, t)
             ELSE LET result == CheckQuota(tool.vendor, use, active, custom, t)
                      pruned == [use EXCEPT ![tool.vendor] = result.state]
                  IN  IF ~result.allowed
                      THEN [allowed |-> FALSE, reason |-> result.reason, use |-> pruned]
                      ELSE CheckStepsQuotas(Tail(steps), pruned, active, custom, t)

CheckAllQuotas(p, use, active, custom, t) ==
    CheckStepsQuotas(p.steps, use, active, custom, t)

\* ExecutionOrchestrator._create_error_adapter_result
CreateErrorAdapterResult(error) ==
    [success |-> FALSE, error |-> error, error_code |-> "ORCHESTRATOR_ERROR"]

\* ResultNormalizer.normalize_step
NormalizeStep(step_id, tool, adapter_result) ==
    [step_id |-> step_id, tool |-> tool,
     status |-> IF adapter_result.success THEN "success" ELSE "failure",
     error |-> adapter_result.error]

NoStepResult == [step_id |-> "None", tool |-> "None", status |-> "None", error |-> "None"]

\* ResultNormalizer._generate_message
GenerateMessage(status, total_steps) ==
    CASE status = "success" ->
            IF total_steps = 1 THEN <<"Task completed successfully.">>
            ELSE <<"All steps completed successfully.">>
      [] status = "partial_success" -> <<"Partial success">>
      [] status = "failure" ->
            IF total_steps = 1 THEN <<"Task failed.">> ELSE <<"Execution failed">>
      [] OTHER -> <<"Execution", status>>

\* normalize_execution without its PARTIAL_SUCCESS branch
NormalizeExecutionNoPartial(step_results) ==
    LET steps_completed ==
            Cardinality({k \in 1..Len(step_results) : step_results[k].status = "success"})
        steps_failed ==
            Cardinality({k \in 1..Len(step_results) : step_results[k].status = "failure"})
        status == IF steps_completed = 0 THEN "failure" ELSE "success"
    IN  [status |-> status, message |-> GenerateMessage(status, Len(step_results)),
         errors |-> SelectSeq([k \in 1..Len(step_results) |-> step_results[k].error],
                              LAMBDA e : e # "None"),
         step_results |-> step_results,
         steps_completed |-> steps_completed, steps_failed |-> steps_failed]

\* ResultNormalizer.normalize_execution
NormalizeExecution(step_results) ==
    LET steps_completed ==
            Cardinality({k \in 1..Len(step_results) : step_results[k].status = "success"})
        steps_failed ==
            Cardinality({k \in 1..Len(step_results) : step_results[k].status = "failure"})
        status == IF steps_failed = 0 THEN "success"
                  ELSE IF steps_completed = 0 THEN "failure"
                  ELSE "partial_success"
    IN  [status |-> status, message |-> GenerateMessage(status, Len(step_results)),
         errors |-> SelectSeq([k \in 1..Len(step_results) |-> step_results[k].error],
                              LAMBDA e : e # "None"),
         step_results |-> step_results,
         steps_completed |-> steps_completed, steps_failed |-> steps_failed]

\* ResultNormalizer.create_error_result
CreateErrorResult(error) ==
    [status |-> "failure", message |-> <<"Execution failed", error>>,
     errors |-> <<error>>, step_results |-> <<>>,
     steps_completed |-> 0, steps_failed |-> 0]

\* create_blocked_result that reports a blocked plan as a failed one
CreateBlockedAsFailure(reason) ==
    [status |-> "failure", message |-> <<"Execution blocked", reason>>,
     errors |-> <<reason>>, step_results |-> <<>>,
     steps_completed |-> 0, steps_failed |-> 0]
\* ResultNormalizer.create_blocked_result
CreateBlockedResult(reason) ==
    [status |-> "blocked", message |-> <<"Execution blocked", reason>>,
     errors |-> <<reason>>, step_results |-> <<>>,
     steps_completed |-> 0, steps_failed |-> 0]

\* a dependency counts as met when no result of it is found, too
IsStepSuccessfulOrAbsent(step_results, step_id) ==
    \A k \in 1..Len(step_results) :
        step_results[k].step_id = step_id => step_results[k].status = "success"

\* ExecutionOrchestrator._is_step_successful: the first result of that step decides
IsStepSuccessful(step_results, step_id) ==
    /\ \E k \in 1..Len(step_results) : step_results[k].step_id = step_id
    /\ LET first == CHOOSE k \in 1..Len(step_results) :
                        /\ step_results[k].step_id = step_id
                        /\ \A j \in 1..(k - 1) : step_results[j].step_id # step_id
       IN  step_results[first].status = "success"

\* the plans of the model: up to three steps S1, S2, S3
StepIds == <<"S1", "S2", "S3">>

\* depends_on of S1, S2, S3: a join, a chain, no dependencies, a forward reference,
\* an id that names no step, a step depending on itself, a cycle
DependencyShapes ==
    { <<{}, {}, {"S1", "S2"}>>,
      <<{}, {"S1"}, {"S2"}>>,
      <<{}, {}, {}>>,
      <<{"S2"}, {}, {"S1"}>>,
      <<{}, {"S9"}, {"S2"}>>,
      <<{"S1"}, {}, {}>>,
      <<{}, {"S3"}, {"S2"}>> }

TextStep == [tool |-> "text_processing", inputs |-> {"text", "operation"}]
SheetStep == [tool |-> "google_sheets_read", inputs |-> {"spreadsheet_id", "range"}]

ToolShapes ==
    { <<TextStep, TextStep, TextStep>>,
      <<SheetStep, TextStep, TextStep>>,
      <<TextStep, SheetStep, TextStep>>,
      <<TextStep, [tool |-> "custom_report", inputs |-> {}], TextStep>>,
      <<TextStep, TextStep, [tool |-> "nonexistent_tool", inputs |-> {}]>>,
      <<TextStep, [tool |-> "text_processing", inputs |-> {"text"}], TextStep>> }

FailureShapes ==
    { <<"stop", "stop", "stop">>, <<"continue", "continue", "continue">>,
      <<"continue", "stop", "retry">> }

MakePlan(n, deps, tools, handling, parallel) ==
    [execution_id |-> "E1",
     steps |-> [i \in 1..n |->
                 [step_id |-> StepIds[i], tool |-> tools[i].tool,
                  inputs |-> tools[i].inputs, failure_handling |-> handling[i],
                  depends_on |-> deps[i]]],
     parallel_execution |-> parallel]

Plans ==
    { MakePlan(n, deps, tools, handling, parallel) :
        n \in 1..Len(StepIds), deps \in DependencyShapes, tools \in ToolShapes,
        handling \in FailureShapes, parallel \in BOOLEAN }

PermissionScopes ==
    { NoPermissions,
      [granted_scopes |-> {"google.sheets.read"},
       oauth_tokens |-> [v \in ToolVendor |-> IF v = "google" THEN "valid" ELSE "absent"]],
      [granted_scopes |-> {"google.sheets.read"},
       oauth_tokens |-> [v \in ToolVendor |->
                            IF v = "google" THEN "expired" ELSE "absent"]] }

\* the usage a plan can find: none, or the google minute window full
Usages ==
    { [v \in ToolVendor |-> VendorUsageState],
      [v \in ToolVendor |->
          IF v = "google"
          THEN LET full == [k \in 1..DEFAULT_QUOTAS[v].requests_per_minute |-> 0]
               IN  [minute_records |-> full, hour_records |-> full,
                    day_records |-> full]
          ELSE VendorUsageState] }

PlanInit ==
    /\ CBIdle
    /\ SelIdle
    /\ TaskIdle
    /\ plan \in Plans
    /\ permissions \in PermissionScopes
    /\ usage \in Usages
    /\ activeRequests = [v \in ToolVendor |-> 0]
    /\ activeExecutions = {}
    /\ planPc = "start"
    /\ cursor = 0
    /\ stepState = [i \in 1..Len(plan.steps) |->
                      [status |-> "pending", calls |-> 0, result |-> NoStepResult]]
    /\ results = <<>>
    /\ completedStepIds = {}
    /\ execResult = NoResult
    /\ QuotaIdle
    /\ GateIdle
    /\ ToolsIdle

\* execute_plan returns: the `finally` drops the plan from the active executions
Return(result) ==
    /\ execResult' = result
    /\ planPc' = "returned"
    /\ activeExecutions' = activeExecutions \ {plan.execution_id}

\* execute_plan up to the first step: validation, permissions, quotas
execute_plan ==
    /\ planPc = "start"
    /\ LET validation_result == ValidatePlan(plan)
           permission_result == CheckAllPermissions(plan, permissions)
           quota_result ==
               CheckAllQuotas(plan, usage, activeRequests, customQuotas, utcnow)
       IN  IF ~validation_result.valid
           THEN /\ Return(CreateErrorResult(validation_result.error))
                /\ UNCHANGED usage
           ELSE IF ~permission_result.allowed
           THEN /\ Return(CreateBlockedResult(permission_result.reason))
                /\ UNCHANGED usage
           ELSE IF ~quota_result.allowed
           THEN /\ Return(CreateBlockedResult(quota_result.reason))
                /\ usage' = quota_result.use
           ELSE /\ activeExecutions' = activeExecutions \cup {plan.execution_id}
                /\ planPc' = IF plan.parallel_execution THEN "roots" ELSE "steps"
                /\ usage' = quota_result.use
                /\ UNCHANGED execResult
    /\ cursor' = 1
    /\ UNCHANGED <<plan, permissions, activeRequests, stepState, results,
                   completedStepIds>>

StepIndices == [i \in 1..Len(plan.steps) |-> i]

\* _execute_parallel: independent_steps and dependent_steps, as indices into plan.steps
IndependentSteps == SelectSeq(StepIndices, LAMBDA i : plan.steps[i].depends_on = {})
DependentSteps == SelectSeq(StepIndices, LAMBDA i : plan.steps[i].depends_on # {})

\* the walk that takes the dependent steps of parallel mode last-declared first
WalkOrderLastFirst ==
    IF plan.parallel_execution
    THEN [k \in 1..Len(DependentSteps) |-> DependentSteps[Len(DependentSteps) + 1 - k]]
    ELSE StepIndices
\* the steps the loop walks: all of them in sequential mode, the dependent ones in
\* parallel mode
WalkOrder == IF plan.parallel_execution THEN DependentSteps ELSE StepIndices

\* the dependency check of the mode
DepsMet(step) ==
    IF plan.parallel_execution
    THEN step.depends_on \subseteq completedStepIds
    ELSE \A dep_id \in step.depends_on : IsStepSuccessful(results, dep_id)

\* the loop body after a step's result is known: append, then the failure handling
\* (sequential) or the completed set (parallel)
AfterStep(i, result) ==
    /\ results' = Append(results, result)
    /\ IF plan.parallel_execution
       THEN /\ completedStepIds' =
                  IF result.status = "success"
                  THEN completedStepIds \cup {plan.steps[i].step_id}
                  ELSE completedStepIds
            /\ cursor' = cursor + 1
       ELSE /\ UNCHANGED completedStepIds
            /\ cursor' = IF result.status = "failure"
                            /\ plan.steps[i].failure_handling = "stop"
                         THEN Len(WalkOrder) + 1
                         ELSE cursor + 1

\* execute_step returned: a root's result waits for the gather, a walked step's
\* result goes through the loop body
StepReturns(i, result) ==
    IF planPc = "roots"
    THEN UNCHANGED <<results, completedStepIds, cursor>>
    ELSE AfterStep(i, result)

\* execute_step returning before any adapter call
FailStep(i, error) ==
    LET step == plan.steps[i]
        result == NormalizeStep(step.step_id, step.tool, CreateErrorAdapterResult(error))
    IN  /\ stepState' = [stepState EXCEPT ![i].status = "failure", ![i].result = result]
        /\ StepReturns(i, result)
        /\ UNCHANGED <<usage, activeRequests>>

\* execute_step that calls the adapter without increment_active
StartStepUntracked(i) ==
    LET step == plan.steps[i]
        tool == GetTool(step.tool)
    IN  IF tool.tool_name = "None" THEN FailStep(i, "Tool not found")
        ELSE IF tool.vendor \notin Adapters THEN FailStep(i, "No adapter for vendor")
        ELSE /\ stepState' = [stepState EXCEPT ![i].status = "running", ![i].calls = 1]
             /\ UNCHANGED <<activeRequests, usage, results, completedStepIds, cursor>>
\* execute_step up to the first adapter.execute
StartStep(i) ==
    LET step == plan.steps[i]
        tool == GetTool(step.tool)
    IN  IF tool.tool_name = "None" THEN FailStep(i, "Tool not found")
        ELSE IF tool.vendor \notin Adapters THEN FailStep(i, "No adapter for vendor")
        ELSE /\ stepState' = [stepState EXCEPT ![i].status = "running", ![i].calls = 1]
             /\ activeRequests' = [activeRequests EXCEPT ![tool.vendor] = @ + 1]
             /\ UNCHANGED <<usage, results, completedStepIds, cursor>>

\* execute_step that records usage for the steps that succeeded only
EndStepRecordsSuccess(i, adapter_result) ==
    LET step == plan.steps[i]
        vendor == GetTool(step.tool).vendor
        result == NormalizeStep(step.step_id, step.tool, adapter_result)
    IN  /\ usage' = [usage EXCEPT ![vendor] =
                        IF adapter_result.success THEN RecordUsage(@, utcnow) ELSE @]
        /\ activeRequests' = [activeRequests EXCEPT ![vendor] = IF @ > 0 THEN @ - 1 ELSE @]
        /\ stepState' = [stepState EXCEPT ![i].status = result.status,
                                          ![i].result = result]
        /\ StepReturns(i, result)
\* execute_step after _execute_with_retry returned: record_usage, step.status,
\* normalize_step, and decrement_active in the `finally`
EndStep(i, adapter_result) ==
    LET step == plan.steps[i]
        vendor == GetTool(step.tool).vendor
        result == NormalizeStep(step.step_id, step.tool, adapter_result)
    IN  /\ usage' = [usage EXCEPT ![vendor] = RecordUsage(@, utcnow)]
        /\ activeRequests' = [activeRequests EXCEPT ![vendor] = IF @ > 0 THEN @ - 1 ELSE @]
        /\ stepState' = [stepState EXCEPT ![i].status = result.status,
                                          ![i].result = result]
        /\ StepReturns(i, result)

\* the loop of _execute_sequential, or of the dependent steps of _execute_parallel,
\* reaches its next step
next_step ==
    /\ planPc = "steps"
    /\ cursor <= Len(WalkOrder)
    /\ \A k \in 1..Len(plan.steps) : stepState[k].status # "running"
    /\ LET i == WalkOrder[cursor]
           step == plan.steps[i]
       IN  IF step.depends_on # {} /\ ~DepsMet(step)
           THEN /\ results' = Append(results,
                        NormalizeStep(step.step_id, step.tool,
                                      CreateErrorAdapterResult("Dependencies not met")))
                /\ cursor' = cursor + 1
                /\ UNCHANGED <<stepState, usage, activeRequests, completedStepIds>>
           ELSE StartStep(i)
    /\ UNCHANGED <<plan, permissions, activeExecutions, planPc, execResult>>

\* _execute_parallel: the gathered execute_step of an independent step starts; the
\* event loop starts the tasks in the order they were created
start_root(i) ==
    /\ planPc = "roots"
    /\ \E k \in 1..Len(IndependentSteps) :
          /\ IndependentSteps[k] = i
          /\ \A j \in 1..(k - 1) : stepState[IndependentSteps[j]].status # "pending"
    /\ stepState[i].status = "pending"
    /\ StartStep(i)
    /\ UNCHANGED <<plan, permissions, activeExecutions, planPc, execResult>>

\* class RetryPolicy
RetryPolicy == {"none", "fixed", "exponential"}

\* `if result.error_code in ('PERMISSION_DENIED', 'NOT_FOUND', 'INVALID_INPUT')`
NON_RETRYABLE == {"PERMISSION_DENIED", "NOT_FOUND", "INVALID_INPUT"}

\* what one adapter.execute does: it returns an AdapterResult or raises
Returns(success, error, error_code) ==
    <<"returns", [success |-> success, error |-> error, error_code |-> error_code]>>
Raises(error) == <<"raises", error>>

\* the delay with every retry waiting one second, whatever the policy
FixedRetryDelay(retry_policy, attempt_no) == IF attempt_no > 0 THEN 1 ELSE 0
\* _execute_with_retry: the seconds slept before attempt `attempt_no`
RetryDelay(retry_policy, attempt_no) ==
    IF attempt_no > 0
    THEN IF retry_policy = "fixed" THEN 1
         ELSE IF retry_policy = "exponential" THEN 2 ^ (attempt_no - 1)
         ELSE 0
    ELSE 0

\* _execute_with_retry: one pass of the loop body after adapter.execute gave
\* `outcome`, and the return after the loop when this was the last pass
AfterAttempt(tool, attempt_no, outcome) ==
    IF outcome[1] = "returns" /\ outcome[2].success
    THEN [returned |-> TRUE, result |-> outcome[2]]
    ELSE IF outcome[1] = "returns" /\ outcome[2].error_code \in NON_RETRYABLE
    THEN [returned |-> TRUE, result |-> outcome[2]]
    ELSE IF attempt_no >= tool.max_retries
    THEN [returned |-> TRUE,
          result |-> [success |-> FALSE, error |-> "All attempts failed",
                      error_code |-> "RETRY_EXHAUSTED"]]
    ELSE [returned |-> FALSE, result |-> NoAdapterResult]

\* what the adapters of a plan's steps do
StepOutcomes ==
    {Returns(TRUE, "None", "None"), Returns(FALSE, "adapter error", "NOT_FOUND"),
     Returns(FALSE, "adapter error", "API_ERROR"), Raises("adapter raised")}

\* _execute_with_retry: adapter.execute gives `outcome`; the loop calls again or
\* returns to execute_step
adapter_answers(i, outcome) ==
    /\ planPc \in {"roots", "steps"}
    /\ stepState[i].status = "running"
    /\ LET tool == GetTool(plan.steps[i].tool)
           after == AfterAttempt(tool, stepState[i].calls - 1, outcome)
       IN  IF after.returned
           THEN EndStep(i, after.result)
           ELSE /\ stepState' = [stepState EXCEPT ![i].calls = @ + 1]
                /\ UNCHANGED <<usage, activeRequests, results, completedStepIds,
                               cursor>>
    /\ UNCHANGED <<plan, permissions, activeExecutions, planPc, execResult>>

\* _execute_with_retry with an adapter that may return or raise anything
adapter_returns(i) == \E outcome \in StepOutcomes : adapter_answers(i, outcome)

\* _execute_parallel after asyncio.gather: the results of the independent steps, in
\* their order, and the ids of those that succeeded
gather_results ==
    /\ planPc = "roots"
    /\ \A k \in 1..Len(IndependentSteps) :
          stepState[IndependentSteps[k]].status \in {"success", "failure"}
    /\ results' = results \o [k \in 1..Len(IndependentSteps) |->
                                stepState[IndependentSteps[k]].result]
    /\ completedStepIds' =
          completedStepIds \cup
          { plan.steps[IndependentSteps[k]].step_id : k \in
              { j \in 1..Len(IndependentSteps) :
                  stepState[IndependentSteps[j]].result.status = "success" } }
    /\ planPc' = "steps"
    /\ cursor' = 1
    /\ UNCHANGED <<plan, permissions, usage, activeRequests, activeExecutions,
                   stepState, execResult>>

\* execute_plan after the steps: normalize_execution and return
finish_plan ==
    /\ planPc = "steps"
    /\ cursor > Len(WalkOrder)
    /\ \A k \in 1..Len(plan.steps) : stepState[k].status # "running"
    /\ Return(NormalizeExecution(results))
    /\ UNCHANGED <<plan, permissions, usage, activeRequests, cursor, stepState,
                   results, completedStepIds>>

PlanNext ==
    \/ execute_plan /\ UNCHANGED <<cbVars, selVars, taskVars, quotaVars, gateVars, toolVars>>
    \/ next_step /\ UNCHANGED <<cbVars, selVars, taskVars, quotaVars, gateVars, toolVars>>
    \/ \E i \in 1..Len(plan.steps) :
          start_root(i) /\ UNCHANGED <<cbVars, selVars, taskVars, quotaVars, gateVars, toolVars>>
    \/ \E i \in 1..Len(plan.steps) :
          adapter_returns(i) /\ UNCHANGED <<cbVars, selVars, taskVars, quotaVars, gateVars, toolVars>>
    \/ gather_results /\ UNCHANGED <<cbVars, selVars, taskVars, quotaVars, gateVars, toolVars>>
    \/ finish_plan /\ UNCHANGED <<cbVars, selVars, taskVars, quotaVars, gateVars, toolVars>>

SpecPlan == PlanInit /\ [][PlanNext]_vars

\* some step's depends_on names an id that no earlier step of the plan carries
BadDependsOn(p) ==
    \E i \in 1..Len(p.steps) : \E dep_id \in p.steps[i].depends_on :
        ~\E j \in 1..(i - 1) : p.steps[j].step_id = dep_id

\* C8: execute_plan rejects, before running any step, every plan in which some
\* step's depends_on names a step id that does not appear earlier in the plan: no
\* step of such a plan leaves PENDING, no adapter is invoked for it, and what it
\* returns is a rejection without step results.
C8_BadDependsOnRejected ==
    BadDependsOn(plan) =>
        /\ \A i \in 1..Len(plan.steps) :
              stepState[i].status = "pending" /\ stepState[i].calls = 0
        /\ planPc = "returned" =>
              execResult.status \in {"failure", "blocked"} /\ execResult.step_results = <<>>

\* every step listed in depends_on has a SUCCESS result among rs
DepsSucceeded(step, rs) ==
    \A dep_id \in step.depends_on :
        \E k \in 1..Len(rs) : rs[k].step_id = dep_id /\ rs[k].status = "success"

\* rs holds a "Dependencies not met" result of the step
HasDependenciesNotMet(step, rs) ==
    \E k \in 1..Len(rs) :
        rs[k].step_id = step.step_id /\ rs[k].error = "Dependencies not met"

\* the loop of the executing mode stands before step i
Reached(i) ==
    /\ planPc = "steps"
    /\ cursor <= Len(WalkOrder)
    /\ WalkOrder[cursor] = i
    /\ \A k \in 1..Len(plan.steps) : stepState[k].status # "running"

CountsAgree(result) ==
    /\ result.steps_completed + result.steps_failed = Len(result.step_results)
    /\ result.steps_failed = 0 <=> result.status = "success"
    /\ result.steps_completed = 0 <=> result.status = "failure"

\* C10 as stated: every result execute_plan returns on a plan with at least one
\* step has steps_completed + steps_failed equal to the number of step results,
\* steps_failed = 0 exactly when it is SUCCESS and steps_completed = 0 exactly when
\* it is FAILURE.
C10_EveryResultCountsAgree ==
    (planPc = "returned" /\ Len(plan.steps) >= 1) => CountsAgree(execResult)

\* C10: a plan with at least one step that passes validation and the permission
\* and quota checks returns at least one step result, and its result has
\* steps_completed + steps_failed equal to the number of step results,
\* steps_failed = 0 exactly when it is SUCCESS and steps_completed = 0 exactly when
\* it is FAILURE; a plan refused by one of the checks returns no step results and
\* zero counts, with FAILURE (validation) or BLOCKED (permission, quota), and none
\* of its steps ran.
C10_AggregateCounts ==
    (planPc = "returned" /\ Len(plan.steps) >= 1) =>
        IF /\ ValidatePlan(plan).valid
           /\ CheckAllPermissions(plan, permissions).allowed
           /\ execResult.status # "blocked"
        THEN execResult.step_results # <<>> /\ CountsAgree(execResult)
        ELSE /\ execResult.step_results = <<>>
             /\ execResult.steps_completed = 0 /\ execResult.steps_failed = 0
             /\ execResult.status =
                    IF ValidatePlan(plan).valid THEN "blocked" ELSE "failure"
             /\ execResult.status = "blocked" =>
                    \/ ~CheckAllPermissions(plan, permissions).allowed
                    \/ ~CheckAllQuotas(plan, usage, activeRequests, customQuotas, utcnow).allowed
             /\ \A i \in 1..Len(plan.steps) :
                    stepState[i].status = "pending" /\ stepState[i].calls = 0

\* two steps succeeded and one failed
C10_Witness ==
    /\ planPc = "returned"
    /\ execResult.status = "partial_success"
    /\ execResult.steps_completed = 2
    /\ execResult.steps_failed = 1

\* the permission check of some step of the plan fails: the plan passed validation
\* (execute_plan checks permissions after it) and the gateway denies a step's tool
PermissionCheckFails ==
    /\ ValidatePlan(plan).valid
    /\ \E i \in 1..Len(plan.steps) :
          ~CheckPermissions(GetTool(plan.steps[i].tool), permissions).allowed

\* C11: if the permission check fails for a step of the plan, execute_plan returns
\* BLOCKED with no step results, and no step of the behaviour invokes an adapter or
\* changes the quota manager's usage records or active counts.
C11_PermissionDeniedBlocks ==
    [][PermissionCheckFails =>
          /\ planPc = "start" =>
                /\ planPc' = "returned"
                /\ execResult'.status = "blocked"
                /\ execResult'.step_results = <<>>
          /\ usage' = usage
          /\ activeRequests' = activeRequests
          /\ \A i \in 1..Len(plan.steps) : stepState'[i].calls = 0]_vars

\* a plan whose second step lacks its scope was refused, with the google minute
\* window already holding records
C11_Witness ==
    /\ PermissionCheckFails
    /\ planPc = "returned"
    /\ execResult.status = "blocked"
    /\ Len(plan.steps) >= 2
    /\ CheckPermissions(GetTool(plan.steps[1].tool), permissions).allowed
    /\ usage["google"].minute_records # <<>>

\* some step of the plan names an unregistered tool or lacks a required input
InvalidStep(step) ==
    \/ step.tool \notin DOMAIN ToolRegistry
    \/ ToolRegistry[step.tool].required_inputs \ step.inputs # {}

PlanHasInvalidStep == \E i \in 1..Len(plan.steps) : InvalidStep(plan.steps[i])

\* C12: if a step of the plan names an unregistered tool or has inputs that fail
\* validation, execute_plan returns a FAILURE result without step results and no
\* step of the plan is executed, the valid steps before the bad one included.
C12_InvalidPlanFails ==
    [][PlanHasInvalidStep =>
          /\ planPc = "start" =>
                /\ planPc' = "returned"
                /\ execResult'.status = "failure"
                /\ execResult'.step_results = <<>>
          /\ results' = <<>>
          /\ \A i \in 1..Len(plan.steps) :
                stepState'[i].calls = 0 /\ stepState'[i].status = "pending"]_vars

\* a plan with valid steps before its bad step was refused
C12_Witness ==
    /\ planPc = "returned"
    /\ execResult.status = "failure"
    /\ Len(plan.steps) = 3
    /\ ~InvalidStep(plan.steps[1])
    /\ ~InvalidStep(plan.steps[2])
    /\ InvalidStep(plan.steps[3])

---------------------------------------------------------------------------
(* Quota manager: tool_execution/quota_manager.py, class QuotaManager      *)

\* bounds of the quota model
MaxRecords == 3     \* cap on the record_usage calls tallied over all vendors
MaxActive == 1      \* cap on the active requests tallied over all vendors

\* the vendors the calls of the model name
QuotaVendors == {"google", "internal"}

\* the QuotaConfig given to set_quota
SmallQuota ==
    [requests_per_minute |-> 2, requests_per_hour |-> 3, requests_per_day |-> 3,
     concurrent_requests |-> 1]

\* the instants the clock shows, in turn: the start, half a second, a minute, an
\* hour and a day after it
QuotaTimes == <<0, 1, OneMinute, OneHour, OneDay>>

TalliedRecords == SumOver(ToolVendor, [v \in ToolVendor |-> Len(recorded[v])])
TalliedActive == SumOver(ToolVendor, activeRequests)

QuotaInit ==
    /\ CBIdle
    /\ SelIdle
    /\ TaskIdle
    /\ PlanIdle

\* QuotaManager.set_quota
set_quota(vendor, config) ==
    /\ vendor \notin DOMAIN customQuotas
    /\ customQuotas' = [v \in DOMAIN customQuotas \cup {vendor} |->
                          IF v = vendor THEN config ELSE customQuotas[v]]
    /\ lastQuotaCheck' = NoQuotaCheck
    /\ UNCHANGED <<usage, activeRequests, utcnow, recorded>>

\* QuotaManager.check_quota
check_quota(vendor) ==
    LET result == CheckQuota(vendor, usage, activeRequests, customQuotas, utcnow)
    IN  /\ usage' = [usage EXCEPT ![vendor] = result.state]
        /\ lastQuotaCheck' =
              [op |-> "check_quota", vendor |-> vendor, allowed |-> result.allowed,
               reason |-> result.reason, current_usage |-> result.current_usage,
               limit |-> result.limit, cooldown_seconds |-> result.cooldown_seconds]
        /\ UNCHANGED <<activeRequests, utcnow, customQuotas, recorded>>

\* QuotaManager.record_usage
record_usage(vendor) ==
    /\ TalliedRecords < MaxRecords
    /\ usage' = [usage EXCEPT ![vendor] = RecordUsage(@, utcnow)]
    /\ recorded' = [recorded EXCEPT ![vendor] = Append(@, utcnow)]
    /\ lastQuotaCheck' = NoQuotaCheck
    /\ UNCHANGED <<activeRequests, utcnow, customQuotas>>

\* QuotaManager.increment_active
increment_active(vendor) ==
    /\ TalliedActive < MaxActive
    /\ activeRequests' = [activeRequests EXCEPT ![vendor] = @ + 1]
    /\ lastQuotaCheck' = NoQuotaCheck
    /\ UNCHANGED <<usage, utcnow, customQuotas, recorded>>

\* QuotaManager.decrement_active
decrement_active(vendor) ==
    /\ activeRequests' = [activeRequests EXCEPT ![vendor] = IF @ > 0 THEN @ - 1 ELSE @]
    /\ lastQuotaCheck' = NoQuotaCheck
    /\ UNCHANGED <<usage, utcnow, customQuotas, recorded>>

\* QuotaManager.reset_user_quota; the vendor "None" resets every vendor
reset_user_quota(vendor) ==
    /\ usage' = [v \in ToolVendor |->
                    IF vendor \in {v, "None"} THEN VendorUsageState ELSE usage[v]]
    /\ activeRequests' = [v \in ToolVendor |->
                             IF vendor \in {v, "None"} THEN 0 ELSE activeRequests[v]]
    /\ recorded' = [v \in ToolVendor |->
                       IF vendor \in {v, "None"} THEN <<>> ELSE recorded[v]]
    /\ lastQuotaCheck' = NoQuotaCheck
    /\ UNCHANGED <<utcnow, customQuotas>>

\* time passes between two calls
QuotaTick ==
    /\ \E k \in 1..(Len(QuotaTimes) - 1) :
          utcnow = QuotaTimes[k] /\ utcnow' = QuotaTimes[k + 1]
    /\ lastQuotaCheck' = NoQuotaCheck
    /\ UNCHANGED <<usage, activeRequests, customQuotas, recorded>>

QuotaNext ==
    \/ \E v \in QuotaVendors :
          set_quota(v, SmallQuota) /\ UNCHANGED <<cbVars, selVars, taskVars, execVars, gateVars, toolVars>>
    \/ \E v \in QuotaVendors :
          check_quota(v) /\ UNCHANGED <<cbVars, selVars, taskVars, execVars, gateVars, toolVars>>
    \/ \E v \in QuotaVendors :
          record_usage(v) /\ UNCHANGED <<cbVars, selVars, taskVars, execVars, gateVars, toolVars>>
    \/ \E v \in QuotaVendors :
          increment_active(v) /\ UNCHANGED <<cbVars, selVars, taskVars, execVars, gateVars, toolVars>>
    \/ \E v \in QuotaVendors :
          decrement_active(v) /\ UNCHANGED <<cbVars, selVars, taskVars, execVars, gateVars, toolVars>>
    \/ \E v \in QuotaVendors \cup {"None"} :
          reset_user_quota(v) /\ UNCHANGED <<cbVars, selVars, taskVars, execVars, gateVars, toolVars>>
    \/ QuotaTick /\ UNCHANGED <<cbVars, selVars, taskVars, execVars, gateVars, toolVars>>

SpecQuota == QuotaInit /\ [][QuotaNext]_vars

\* the stamps of a list lying after `after` (or at it, when `closed`) and not after t
CountWithin(stamps, after, t, closed) ==
    Cardinality({ k \in 1..Len(stamps) :
                    /\ stamps[k] <= t
                    /\ IF closed THEN stamps[k] >= after ELSE stamps[k] > after })

\* record_usage was called at increasing times
IncreasingTimes(stamps) ==
    \A j, k \in 1..Len(stamps) : j < k => stamps[j] < stamps[k]

\* the three counters of the vendor just checked equal the stamps recorded in the
\* last minute, hour and day, the windows closed at their far end or open there
WindowCountsAfterCheck(closed) ==
    lastQuotaCheck.op = "check_quota" =>
        LET v == lastQuotaCheck.vendor
        IN  IncreasingTimes(recorded[v]) =>
              /\ Len(usage[v].minute_records) =
                    CountWithin(recorded[v], utcnow - OneMinute, utcnow, closed)
              /\ Len(usage[v].hour_records) =
                    CountWithin(recorded[v], utcnow - OneHour, utcnow, closed)
              /\ Len(usage[v].day_records) =
                    CountWithin(recorded[v], utcnow - OneDay, utcnow, closed)

\* C13 as stated: after record_usage calls at increasing times and a check at time T,
\* the minute, hour and day counters equal the numbers of recorded stamps in
\* [T-60s, T], [T-1h, T] and [T-1d, T].
C13_ClosedWindowCounts == WindowCountsAfterCheck(TRUE)

\* C13, amended: the counters equal the numbers of recorded stamps in (T-60s, T],
\* (T-1h, T] and (T-1d, T]: a stamp exactly one window old is purged.
C13_OpenWindowCounts == WindowCountsAfterCheck(FALSE)

\* a check found one stamp in the last minute, two in the last hour and three in the
\* last day
C13_Witness ==
    /\ lastQuotaCheck.op = "check_quota"
    /\ IncreasingTimes(recorded[lastQuotaCheck.vendor])
    /\ Len(usage[lastQuotaCheck.vendor].minute_records) = 1
    /\ Len(usage[lastQuotaCheck.vendor].hour_records) = 2
    /\ Len(usage[lastQuotaCheck.vendor].day_records) = 3

\* some count of the vendor has reached its cap
AtSomeCap(v) ==
    LET quota == GetQuota(customQuotas, v)
    IN  \/ Len(usage[v].minute_records) >= quota.requests_per_minute
        \/ Len(usage[v].hour_records) >= quota.requests_per_hour
        \/ Len(usage[v].day_records) >= quota.requests_per_day
        \/ activeRequests[v] >= quota.concurrent_requests

\* the usage of the vendor is as many record_usage calls as the minute cap, all made
\* at one time, the hour and day caps being higher
MinuteCapUses(v) ==
    LET quota == GetQuota(customQuotas, v)
    IN  /\ Len(recorded[v]) = quota.requests_per_minute
        /\ \A k \in 1..Len(recorded[v]) : recorded[v][k] = recorded[v][1]
        /\ quota.requests_per_minute < quota.requests_per_hour
        /\ quota.requests_per_minute < quota.requests_per_day

\* what C14 says of the check just made; `whole` takes the elapsed time of the
\* cooldown in whole seconds, otherwise it is taken as it is
QuotaDecision(whole) ==
    lastQuotaCheck.op = "check_quota" =>
        LET v == lastQuotaCheck.vendor
            elapsed == utcnow - recorded[v][1]
        IN  /\ ~lastQuotaCheck.allowed <=> AtSomeCap(v)
            /\ (MinuteCapUses(v) /\ elapsed < OneMinute) =>
                  /\ ~lastQuotaCheck.allowed
                  /\ IF whole
                     THEN lastQuotaCheck.cooldown_seconds =
                              60 - (elapsed \div TicksPerSecond)
                     ELSE lastQuotaCheck.cooldown_seconds * TicksPerSecond =
                              OneMinute - elapsed
            /\ (MinuteCapUses(v) /\ elapsed > OneMinute /\ activeRequests[v] = 0) =>
                  lastQuotaCheck.allowed

\* C14 as stated: check_quota denies exactly when, after purging, a minute, hour, day
\* or active count has reached its cap; after as many uses at time t as the minute
\* cap, a check before t+60s is denied with cooldown 60 minus the time elapsed since
\* the oldest stamp, and a check after t+60s is allowed.
C14_CooldownIsRemainingTime == QuotaDecision(FALSE)

\* C14, amended: the cooldown is 60 minus the whole seconds elapsed since the oldest
\* stamp (the fraction of a second is dropped).
C14_CooldownInWholeSeconds == QuotaDecision(TRUE)

\* a check half a second after the uses that filled the minute cap was denied
C14_Witness ==
    /\ lastQuotaCheck.op = "check_quota"
    /\ MinuteCapUses(lastQuotaCheck.vendor)
    /\ utcnow - recorded[lastQuotaCheck.vendor][1] \in 1..(TicksPerSecond - 1)
    /\ ~lastQuotaCheck.allowed
    /\ lastQuotaCheck.cooldown_seconds = 60

---------------------------------------------------------------------------
(* Permission gateway: tool_execution/security_gateway.py, SecurityGateway *)

\* the scopes of the model, split at their dots
ScopeParts(scope) ==
    CASE scope = "google.sheets.read" -> <<"google", "sheets", "read">>
      [] scope = "google.sheets.write" -> <<"google", "sheets", "write">>
      [] scope = "google.drive.write" -> <<"google", "drive", "write">>
      [] scope = "google.sheets.*" -> <<"google", "sheets", "*">>
      [] scope = "google.*" -> <<"google", "*">>

GrantableScopes ==
    {"google.sheets.read", "google.sheets.write", "google.drive.write",
     "google.sheets.*", "google.*"}

\* scope.endswith(".*") and required.startswith(scope[:-1])
WildcardCovers(scope, required) ==
    LET parts == ScopeParts(scope)
        prefix == SubSeq(parts, 1, Len(parts) - 1)
    IN  /\ Len(parts) >= 2
        /\ parts[Len(parts)] = "*"
        /\ Len(ScopeParts(required)) > Len(prefix)
        /\ SubSeq(ScopeParts(required), 1, Len(prefix)) = prefix

\* SecurityGateway._scope_matches
ScopeMatches(granted, required) ==
    \E scope \in granted : scope = required \/ WildcardCovers(scope, required)

\* SecurityGateway.enforce_scope
EnforceScope(granted_scopes, required_scopes) ==
    \A required \in required_scopes : ScopeMatches(granted_scopes, required)

\* the tools and the user scopes the gateway is asked about
GateTools ==
    { ToolRegistry[name] :
        name \in {"text_processing", "google_sheets_read", "google_sheets_create"} }

GateScopes ==
    [granted_scopes : SUBSET GrantableScopes,
     oauth_tokens : { [v \in ToolVendor |-> IF v = "google" THEN token ELSE "absent"] :
                        token \in {"absent", "expired", "short", "valid"} }]

GateInit ==
    /\ ToolsIdle
    /\ CBIdle
    /\ SelIdle
    /\ TaskIdle
    /\ QuotaIdle
    /\ plan = NoPlan
    /\ usage = [v \in ToolVendor |-> VendorUsageState]
    /\ activeRequests = [v \in ToolVendor |-> 0]
    /\ activeExecutions = {}
    /\ planPc = "idle"
    /\ cursor = 0
    /\ stepState = <<>>
    /\ results = <<>>
    /\ completedStepIds = {}
    /\ execResult = NoResult
    /\ permissions \in GateScopes
    /\ checkedTool \in GateTools
    /\ permissionResult = NoPermissionResult

\* SecurityGateway.check_permissions
check_permissions ==
    /\ permissionResult = NoPermissionResult
    /\ permissionResult' =
          [op |-> "check_permissions",
           result |-> CheckPermissions(checkedTool, permissions)]
    /\ UNCHANGED checkedTool

\* SecurityGateway.enforce_scope on the scopes the tool requires
enforce_scope ==
    /\ permissionResult = NoPermissionResult
    /\ permissionResult' =
          [op |-> "enforce_scope",
           result |-> EnforceScope(permissions.granted_scopes,
                                   checkedTool.required_permissions)]
    /\ UNCHANGED checkedTool

GateNext ==
    \/ check_permissions
          /\ UNCHANGED <<cbVars, selVars, taskVars, execVars, quotaVars, usage,
                         activeRequests, toolVars>>
    \/ enforce_scope
          /\ UNCHANGED <<cbVars, selVars, taskVars, execVars, quotaVars, usage,
                         activeRequests, toolVars>>

SpecGate == GateInit /\ [][GateNext]_vars

\* the required scopes of the tool that neither an equal granted scope nor a granted
\* wildcard covers
Uncovered(tool, user_scopes) ==
    { required \in tool.required_permissions :
        ~ScopeMatches(user_scopes.granted_scopes, required) }

\* C15: check_permissions takes a required scope as granted when it is one of the
\* granted scopes or a granted wildcard covers it, and returns INSUFFICIENT_SCOPE with
\* the missing set exactly when some required scope is covered by neither.
C15_WildcardGrantsHonoured ==
    (permissionResult # NoPermissionResult /\ permissionResult.op = "check_permissions")
    => LET result == permissionResult.result
           missing == Uncovered(checkedTool, permissions)
       IN  /\ result.status = "insufficient_scope" <=> missing # {}
           /\ result.status = "insufficient_scope" => result.missing_permissions = missing

---------------------------------------------------------------------------
(* The cost engine on its own: a descriptor and token counts are drawn, and *)
(* the estimate and the actual credits are computed for them.               *)

CostLevels == {"free", "low", "medium", "high"}

\* the pricing pairs a descriptor may carry, in 1/RateUnit credit: half a credit and
\* one and a half, or nothing at all
ModelPricings ==
    { [credits_per_1k_input |-> RateUnit \div 2,
       credits_per_1k_output |-> RateUnit + RateUnit \div 2],
      [credits_per_1k_input |-> 0, credits_per_1k_output |-> 0] }

\* a free descriptor that carries a pricing pair carries the zero pair
PricingOfLevel(level) ==
    IF level = "free"
    THEN {p \in ModelPricings :
            p.credits_per_1k_input = 0 /\ p.credits_per_1k_output = 0}
    ELSE ModelPricings

\* the descriptors the engine is given: the fleet's, which carry no pricing, one of
\* each tier without pricing, and the priced ones
CostModels ==
    {Catalog[i] : i \in 1..Len(Catalog)}
      \cup {[name |-> "unpriced", cost_level |-> level] : level \in CostLevels}
      \cup UNION {{[name |-> "priced", cost_level |-> level, pricing |-> p] :
                      p \in PricingOfLevel(level)} : level \in CostLevels}

TokenCounts == {0, 1, 250, 499, 500, 1000, 1500}

CostInit ==
    /\ CBIdle /\ SelIdle /\ PlanIdle
    /\ pc = "idle"
    /\ dbStatus = "pending"
    /\ response = NoResponse
    /\ attempt = 0
    /\ modelsTried = <<>>
    /\ generated = <<>>
    /\ raised = "None"
    /\ CreditIdle
    /\ BudgetIdle
    /\ costModel \in CostModels
    /\ costTokens \in [prompt_tokens : TokenCounts, completion_tokens : TokenCounts]
    /\ costResult = NoCostResult

\* cost_engine.estimate_credits_for_model(model, input_tokens, output_tokens)
estimate_credits_for_model ==
    /\ costResult' =
         [op |-> "estimate_credits_for_model",
          credits |-> EstimateCreditsForModel(costModel, costTokens.prompt_tokens,
                                              costTokens.completion_tokens)]
    /\ UNCHANGED <<costModel, costTokens>>

\* cost_engine.calculate_credits_for_model(model, input_tokens, output_tokens)
calculate_credits_for_model ==
    /\ costResult' =
         [op |-> "calculate_credits_for_model",
          credits |-> CalculateCreditsForModel(costModel, costTokens.prompt_tokens,
                                               costTokens.completion_tokens)]
    /\ UNCHANGED <<costModel, costTokens>>

CostNext ==
    \/ estimate_credits_for_model
         /\ UNCHANGED <<cbVars, selVars, planVars, pc, dbStatus, response, attempt,
                        modelsTried, generated, raised, creditVars, budgetVars,
                        traceVars>>
    \/ calculate_credits_for_model
         /\ UNCHANGED <<cbVars, selVars, planVars, pc, dbStatus, response, attempt,
                        modelsTried, generated, raised, creditVars, budgetVars,
                        traceVars>>

SpecCost == CostInit /\ [][CostNext]_vars

---------------------------------------------------------------------------
(* The credit rate limiter on its own: consumption is recorded for one      *)
(* office, the clock moves on and budgets are checked, with and without     *)
(* limits of the subscription.                                              *)

\* records held for the office at one time
MaxConsumptions == 2

\* the limits a subscription sets, when it sets them
SubscriptionHourlyLimit == MaxConsumptions + 1
SubscriptionDailyLimit == SubscriptionHourlyLimit + 1

\* the instants of the rate limiter's clock: a start, a tick later, an hour after
\* each of the two, and the next day
BudgetTimes == <<0, 1, OneHour, OneHour + 1, OneDay>>

BudgetInit ==
    /\ CBIdle /\ SelIdle /\ PlanIdle
    /\ pc = "idle"
    /\ dbStatus = "pending"
    /\ response = NoResponse
    /\ attempt = 0
    /\ modelsTried = <<>>
    /\ generated = <<>>
    /\ raised = "None"
    /\ CreditIdle
    /\ CostIdle
    /\ BudgetIdle

\* rate_limiter.check_budget(...)
budget_check(estimated_credits, hourly_limit, daily_limit, credits_remaining, budget_pause_enabled) ==
    LET r == CheckBudget(officeState, datetimeNow, estimated_credits, hourly_limit,
                         daily_limit, credits_remaining, budget_pause_enabled)
    IN  /\ officeState' = r.state
        /\ lastBudget' = [op |-> "check_budget", before |-> officeState,
                          at |-> datetimeNow,
                          estimated_credits |-> estimated_credits,
                          budget_pause_enabled |-> budget_pause_enabled,
                          allowed |-> r.allowed, action |-> r.action,
                          reason |-> r.reason, hourly_limit |-> r.hourly_limit,
                          cooldown_seconds |-> r.cooldown_seconds]
        /\ UNCHANGED datetimeNow

\* rate_limiter.record_consumption(office_id, credits)
record_consumption(credits) ==
    /\ Len(CleanupOldRecords(officeState, datetimeNow).hourly_records) < MaxConsumptions
    /\ officeState' = RecordConsumption(officeState, datetimeNow, credits)
    /\ lastBudget' = [op |-> "record_consumption"]
    /\ UNCHANGED datetimeNow

\* the clock moves to its next instant
BudgetTick ==
    /\ \E i \in 1..(Len(BudgetTimes) - 1) :
         /\ datetimeNow = BudgetTimes[i]
         /\ datetimeNow' = BudgetTimes[i + 1]
    /\ lastBudget' = NoBudgetCall
    /\ UNCHANGED officeState

BudgetNext ==
    \/ \E estimated_credits \in {0, 1},
          hourly_limit \in {NoLimit, SubscriptionHourlyLimit},
          daily_limit \in {NoLimit, SubscriptionDailyLimit},
          credits_remaining \in {0, 1},
          budget_pause_enabled \in BOOLEAN :
         /\ budget_check(estimated_credits, hourly_limit, daily_limit,
                         credits_remaining, budget_pause_enabled)
         /\ UNCHANGED <<cbVars, selVars, planVars, pc, dbStatus, response, attempt,
                        modelsTried, generated, raised, creditVars, costVars,
                        traceVars>>
    \/ \E credits \in {1, MaxConsumptions} :
         /\ record_consumption(credits)
         /\ UNCHANGED <<cbVars, selVars, planVars, pc, dbStatus, response, attempt,
                        modelsTried, generated, raised, creditVars, costVars,
                        traceVars>>
    \/ BudgetTick
         /\ UNCHANGED <<cbVars, selVars, planVars, pc, dbStatus, response, attempt,
                        modelsTried, generated, raised, creditVars, costVars,
                        traceVars>>

SpecBudget == BudgetInit /\ [][BudgetNext]_vars

\* the credits recorded for the office within the hour that ends at t
RECURSIVE UsageInHour(_, _)
UsageInHour(records, t) ==
    IF records = <<>> THEN 0
    ELSE (IF Head(records).timestamp > t - OneHour THEN Head(records).credits ELSE 0)
         + UsageInHour(Tail(records), t)

\* C18: when the usage recorded in the rolling hour equals the hourly limit,
\* check_budget for a positive estimate returns WARN and allows if pausing is off,
\* and returns BLOCK and refuses if pausing is on; a WARN result does not stop the
\* task.
C18_HourlyLimitWarnsOrBlocks ==
    lastBudget.op = "check_budget" =>
      /\ (UsageInHour(lastBudget.before.hourly_records, lastBudget.at)
              = lastBudget.hourly_limit
            /\ lastBudget.estimated_credits > 0)
           => IF lastBudget.budget_pause_enabled
              THEN lastBudget.action = "block" /\ ~lastBudget.allowed
              ELSE lastBudget.action = "warn" /\ lastBudget.allowed
      /\ lastBudget.action = "warn" => ~BudgetStopsTask(lastBudget)

\* the subscription's hourly limit is used up within the hour, and a check for one
\* credit with pausing off warns and allows
C18_Witness ==
    /\ lastBudget.op = "check_budget"
    /\ lastBudget.hourly_limit = SubscriptionHourlyLimit
    /\ UsageInHour(lastBudget.before.hourly_records, lastBudget.at)
         = SubscriptionHourlyLimit
    /\ Len(lastBudget.before.hourly_records) = 2
    /\ lastBudget.estimated_credits = 1
    /\ ~lastBudget.budget_pause_enabled
    /\ lastBudget.action = "warn"
    /\ lastBudget.allowed

\* the index in plan.steps of the step a result belongs to
StepOfResult(result) == CHOOSE i \in 1..Len(plan.steps) : plan.steps[i].step_id = result.step_id

\* C24: in sequential mode a failed step whose failure_handling is STOP ends the
\* run - its result is the last one and no later step is executed - also when the
\* failure is the "Dependencies not met" one; a failed step whose handling is
\* CONTINUE is followed by the next step.
C24_StopEndsSequentialRun ==
    ~plan.parallel_execution =>
      \A k \in 1..Len(results) :
        results[k].status = "failure" =>
          LET i == StepOfResult(results[k])
          IN  /\ plan.steps[i].failure_handling = "stop"
                   => /\ Len(results) = k
                      /\ \A j \in (i + 1)..Len(plan.steps) : stepState[j].calls = 0
              /\ (plan.steps[i].failure_handling = "continue" /\ planPc = "returned")
                   => Len(results) >= Len(plan.steps) \/ Len(results) > k


---------------------------------------------------------------------------
(* The retry loop on its own: execution_orchestrator.py, _execute_with_retry *)

\* ToolDefinition.max_retries of the tools given: none, one, and the default
RetryLimits == {0, 1, 3}

\* the fields of the ToolDefinition that _execute_with_retry reads
RetryTools ==
    [tool_name : {"tool"}, retry_policy : RetryPolicy, max_retries : RetryLimits]

\* what adapter.execute may do on one call
AdapterOutcomes ==
    {Returns(TRUE, "None", "None"), Raises("adapter raised")}
    \cup { Returns(FALSE, "adapter error", code) : code \in NON_RETRYABLE \cup {"API_ERROR"} }

RetryInit ==
    /\ CBIdle
    /\ SelIdle
    /\ TaskIdle
    /\ ExecIdle
    /\ retryTool \in RetryTools
    /\ retryAttempt = 0
    /\ retryTrace = <<>>
    /\ retryResult = NoAdapterResult
    /\ RegistryIdle
    /\ SandboxIdle
    /\ RerunIdle
    /\ ShareIdle
    /\ ActiveIdle
    /\ WindowIdle

\* _execute_with_retry: one pass of `for attempt in range(max_retries + 1)`: the
\* sleep, adapter.execute, and the return when the pass ends the call
retry_attempt ==
    /\ retryTool # NoTool
    /\ retryResult = NoAdapterResult
    /\ retryAttempt <= retryTool.max_retries
    /\ \E outcome \in AdapterOutcomes :
         LET after == AfterAttempt(retryTool, retryAttempt, outcome)
         IN  /\ retryTrace' = Append(retryTrace,
                    [attempt |-> retryAttempt,
                     delay |-> RetryDelay(retryTool.retry_policy, retryAttempt),
                     outcome |-> outcome])
             /\ retryResult' = after.result
             /\ retryAttempt' = IF after.returned THEN retryAttempt ELSE retryAttempt + 1
    /\ UNCHANGED retryTool

RetryNext ==
    retry_attempt
        /\ UNCHANGED <<cbVars, selVars, taskVars, execVars, usage, activeRequests,
                       quotaVars, gateVars, registryVars, sandboxVars, rerunVars, shareVars, activeVars, windowVars>>

SpecRetry == RetryInit /\ [][RetryNext]_vars

\* the adapter call ended the loop: a success or a non-retryable error code
EndsLoop(outcome) ==
    /\ outcome[1] = "returns"
    /\ \/ outcome[2].success
       \/ outcome[2].error_code \in {"PERMISSION_DENIED", "NOT_FOUND", "INVALID_INPUT"}

\* C29: _execute_with_retry calls the adapter at most max_retries + 1 times; a
\* success or a PERMISSION_DENIED, NOT_FOUND or INVALID_INPUT result is returned
\* at once; nothing is waited before attempt 0, one second before each retry of a
\* fixed policy and 2^(attempt-1) seconds of an exponential one; RETRY_EXHAUSTED
\* is returned only when all max_retries + 1 attempts have been made
C29_RetryLoop ==
    /\ Len(retryTrace) <= retryTool.max_retries + 1
    /\ \A k \in 1..Len(retryTrace) :
          /\ retryTrace[k].attempt = k - 1
          /\ k = 1 => retryTrace[k].delay = 0
          /\ (k > 1 /\ retryTool.retry_policy = "fixed") => retryTrace[k].delay = 1
          /\ (k > 1 /\ retryTool.retry_policy = "exponential")
                => retryTrace[k].delay = 2 ^ (retryTrace[k].attempt - 1)
          /\ k < Len(retryTrace) => ~EndsLoop(retryTrace[k].outcome)
          /\ (k = Len(retryTrace) /\ EndsLoop(retryTrace[k].outcome))
                => retryResult = retryTrace[k].outcome[2]
    /\ retryResult.error_code = "RETRY_EXHAUSTED"
          => /\ Len(retryTrace) = retryTool.max_retries + 1
             /\ ~retryResult.success

\* an exponential tool used all four attempts, having waited 0, 1, 2 and 4 seconds
C29_Witness ==
    /\ retryTool.retry_policy = "exponential"
    /\ retryResult.error_code = "RETRY_EXHAUSTED"
    /\ [k \in 1..Len(retryTrace) |-> retryTrace[k].delay] = <<0, 1, 2, 4>>

\* C30: a tool whose retry policy is 'none' has its adapter called at most once,
\* whatever the adapter does and whatever the tool's max_retries
C30_NoneNeverRetries ==
    (retryTool # NoTool /\ retryTool.retry_policy = "none") => Len(retryTrace) <= 1


---------------------------------------------------------------------------
(* Tool registry: tool_registry.py, class ToolRegistry                     *)

MaxRegistryCalls == 3

\* the names and the definitions given to the registry: two names, and two
\* definitions of each that differ in a field
ToolNames == {"tool_a", "tool_b"}
ToolDefinitions == [tool_name : ToolNames, timeout_seconds : {30, 60}]

\* `self._tools[tool.tool_name] = tool`
Store(t, tool) ==
    [n \in DOMAIN t \cup {tool.tool_name} |-> IF n = tool.tool_name THEN tool ELSE t[n]]

\* `del self._tools[tool_name]`
Delete(t, tool_name) == [n \in DOMAIN t \ {tool_name} |-> t[n]]

\* ToolRegistry.register_tool: the exception raised and the dict left
RegisterTool(t, tool) ==
    IF tool.tool_name \in DOMAIN t
    THEN [raised |-> "ValueError", tools |-> t]
    ELSE [raised |-> "None", tools |-> Store(t, tool)]

\* update_tool that keeps the definition registered before
UpdateToolKeepsOld(t, tool) ==
    IF tool.tool_name \notin DOMAIN t
    THEN [raised |-> "KeyError", tools |-> t]
    ELSE [raised |-> "None", tools |-> t]
\* ToolRegistry.update_tool
UpdateTool(t, tool) ==
    IF tool.tool_name \notin DOMAIN t
    THEN [raised |-> "KeyError", tools |-> t]
    ELSE [raised |-> "None", tools |-> Store(t, tool)]

\* ToolRegistry.unregister_tool
UnregisterTool(t, tool_name) ==
    IF tool_name \notin DOMAIN t
    THEN [raised |-> "KeyError", tools |-> t]
    ELSE [raised |-> "None", tools |-> Delete(t, tool_name)]

\* ToolRegistry.get_tool on a given dict: `self._tools.get(tool_name)`
LookupTool(t, tool_name) == IF tool_name \in DOMAIN t THEN t[tool_name] ELSE NoTool

RegistryInit ==
    /\ CBIdle
    /\ SelIdle
    /\ TaskIdle
    /\ ExecIdle
    /\ RetryIdle
    /\ SandboxIdle
    /\ RerunIdle
    /\ ShareIdle
    /\ ActiveIdle
    /\ WindowIdle
    /\ registeredTools = NoTools
    /\ registryLog = <<>>

\* one entry of the history
RegistryCall(op, tool_name, tool, done, returned) ==
    [op |-> op, tool_name |-> tool_name, tool |-> tool, raised |-> done.raised,
     before |-> registeredTools, after |-> done.tools, returned |-> returned]

register_tool(tool) ==
    /\ Len(registryLog) < MaxRegistryCalls
    /\ LET done == RegisterTool(registeredTools, tool)
       IN  /\ registeredTools' = done.tools
           /\ registryLog' = Append(registryLog,
                  RegistryCall("register_tool", tool.tool_name, tool, done, NoTool))

update_tool(tool) ==
    /\ Len(registryLog) < MaxRegistryCalls
    /\ LET done == UpdateTool(registeredTools, tool)
       IN  /\ registeredTools' = done.tools
           /\ registryLog' = Append(registryLog,
                  RegistryCall("update_tool", tool.tool_name, tool, done, NoTool))

unregister_tool(tool_name) ==
    /\ Len(registryLog) < MaxRegistryCalls
    /\ LET done == UnregisterTool(registeredTools, tool_name)
       IN  /\ registeredTools' = done.tools
           /\ registryLog' = Append(registryLog,
                  RegistryCall("unregister_tool", tool_name, NoTool, done, NoTool))

get_tool(tool_name) ==
    /\ Len(registryLog) < MaxRegistryCalls
    /\ registryLog' = Append(registryLog,
           RegistryCall("get_tool", tool_name, NoTool,
                        [raised |-> "None", tools |-> registeredTools],
                        LookupTool(registeredTools, tool_name)))
    /\ UNCHANGED registeredTools

RegistryNext ==
    \/ \E tool \in ToolDefinitions :
          register_tool(tool)
             /\ UNCHANGED <<cbVars, selVars, taskVars, execVars, usage, activeRequests,
                            quotaVars, gateVars, retryVars, sandboxVars, rerunVars, shareVars, activeVars, windowVars>>
    \/ \E tool \in ToolDefinitions :
          update_tool(tool)
             /\ UNCHANGED <<cbVars, selVars, taskVars, execVars, usage, activeRequests,
                            quotaVars, gateVars, retryVars, sandboxVars, rerunVars, shareVars, activeVars, windowVars>>
    \/ \E tool_name \in ToolNames :
          unregister_tool(tool_name)
             /\ UNCHANGED <<cbVars, selVars, taskVars, execVars, usage, activeRequests,
                            quotaVars, gateVars, retryVars, sandboxVars, rerunVars, shareVars, activeVars, windowVars>>
    \/ \E tool_name \in ToolNames :
          get_tool(tool_name)
             /\ UNCHANGED <<cbVars, selVars, taskVars, execVars, usage, activeRequests,
                            quotaVars, gateVars, retryVars, sandboxVars, rerunVars, shareVars, activeVars, windowVars>>

SpecRegistry == RegistryInit /\ [][RegistryNext]_vars

\* call k of the history went through without raising
Went(k, op) == registryLog[k].op = op /\ registryLog[k].raised = "None"

\* C25: a tool registered and then unregistered leaves the registry with the
\* contents it had before; register, update, lookup of one name returns the
\* updated definition; registering a registered name, or updating or
\* unregistering a missing one, raises and leaves the registry as it was
C25_RegistryRoundTrip ==
    /\ \A k \in 1..Len(registryLog) :
          LET call == registryLog[k]
              known == call.tool_name \in DOMAIN call.before
          IN  /\ (call.op = "register_tool" /\ known) => call.raised = "ValueError"
              /\ (call.op \in {"update_tool", "unregister_tool"} /\ ~known)
                    => call.raised = "KeyError"
              /\ call.raised # "None" => call.after = call.before
    /\ \A k \in 1..(Len(registryLog) - 1) :
          (/\ Went(k, "register_tool")
           /\ registryLog[k + 1].op = "unregister_tool"
           /\ registryLog[k + 1].tool_name = registryLog[k].tool_name)
          => /\ registryLog[k + 1].raised = "None"
             /\ registryLog[k + 1].after = registryLog[k].before
    /\ \A k \in 1..(Len(registryLog) - 2) :
          (/\ Went(k, "register_tool")
           /\ registryLog[k + 1].op = "update_tool"
           /\ registryLog[k + 2].op = "get_tool"
           /\ registryLog[k + 1].tool_name = registryLog[k].tool_name
           /\ registryLog[k + 2].tool_name = registryLog[k].tool_name)
          => /\ registryLog[k + 1].raised = "None"
             /\ registryLog[k + 2].returned = registryLog[k + 1].tool

\* tool_a was registered, updated to another definition and looked up
C25_Witness ==
    /\ Len(registryLog) = 3
    /\ Went(1, "register_tool")
    /\ Went(2, "update_tool")
    /\ registryLog[3].op = "get_tool"
    /\ registryLog[2].tool # registryLog[1].tool
    /\ registryLog[3].returned = registryLog[2].tool
    /\ registeredTools = Store(NoTools, registryLog[2].tool)


---------------------------------------------------------------------------
(* Sandbox: sandbox.py, class ExecutionSandbox, and the data_transform tool *)
(* of adapters/internal.py. A str is the sequence of its characters.        *)

MaxSubprocesses == 2

\* str.lower() of one character
LowerChar(c) ==
    CASE c = "A" -> "a" [] c = "B" -> "b" [] c = "C" -> "c" [] c = "D" -> "d"
      [] c = "E" -> "e" [] c = "F" -> "f" [] c = "G" -> "g" [] c = "H" -> "h"
      [] c = "I" -> "i" [] c = "J" -> "j" [] c = "K" -> "k" [] c = "L" -> "l"
      [] c = "M" -> "m" [] c = "N" -> "n" [] c = "O" -> "o" [] c = "P" -> "p"
      [] c = "Q" -> "q" [] c = "R" -> "r" [] c = "S" -> "s" [] c = "T" -> "t"
      [] c = "U" -> "u" [] c = "V" -> "v" [] c = "W" -> "w" [] c = "X" -> "x"
      [] c = "Y" -> "y" [] c = "Z" -> "z" [] OTHER -> c

\* a scan that compares the code as written
KeepCase(text) == text
\* str.lower()
Lower(text) == [i \in 1..Len(text) |-> LowerChar(text[i])]

\* `pattern in text`
Contains(text, pattern) ==
    \E i \in 1..(Len(text) - Len(pattern) + 1) :
        \A j \in 1..Len(pattern) : text[i + j - 1] = pattern[j]

\* _check_code_safety: dangerous_patterns, in the order of the list
DANGEROUS_PATTERNS ==
    <<      [pattern |-> <<"i", "m", "p", "o", "r", "t", " ", "o", "s">>,
       message |-> "Direct os import not allowed"],
      [pattern |-> <<"i", "m", "p", "o", "r", "t", " ", "s", "y", "s">>,
       message |-> "Direct sys import not allowed"],
      [pattern |-> <<"i", "m", "p", "o", "r", "t", " ", "s", "u", "b", "p", "r", "o", "c", "e", "s", "s">>,
       message |-> "subprocess import not allowed"],
      [pattern |-> <<"i", "m", "p", "o", "r", "t", " ", "s", "o", "c", "k", "e", "t">>,
       message |-> "socket import not allowed"],
      [pattern |-> <<"i", "m", "p", "o", "r", "t", " ", "r", "e", "q", "u", "e", "s", "t", "s">>,
       message |-> "requests import not allowed"],
      [pattern |-> <<"i", "m", "p", "o", "r", "t", " ", "u", "r", "l", "l", "i", "b">>,
       message |-> "urllib import not allowed"],
      [pattern |-> <<"i", "m", "p", "o", "r", "t", " ", "h", "t", "t", "p">>,
       message |-> "http import not allowed"],
      [pattern |-> <<"_", "_", "i", "m", "p", "o", "r", "t", "_", "_">>,
       message |-> "__import__ not allowed"],
      [pattern |-> <<"e", "v", "a", "l", "(">>,
       message |-> "eval not allowed"],
      [pattern |-> <<"e", "x", "e", "c", "(">>,
       message |-> "exec not allowed"],
      [pattern |-> <<"c", "o", "m", "p", "i", "l", "e", "(">>,
       message |-> "compile not allowed"],
      [pattern |-> <<"o", "p", "e", "n", "(">>,
       message |-> "open() not allowed - use provided data"],
      [pattern |-> <<"f", "i", "l", "e", "(">>,
       message |-> "file() not allowed"],
      [pattern |-> <<"g", "l", "o", "b", "a", "l", "s", "(">>,
       message |-> "globals() not allowed"],
      [pattern |-> <<"l", "o", "c", "a", "l", "s", "(">>,
       message |-> "locals() not allowed"],
      [pattern |-> <<"g", "e", "t", "a", "t", "t", "r", "(">>,
       message |-> "getattr() not allowed"],
      [pattern |-> <<"s", "e", "t", "a", "t", "t", "r", "(">>,
       message |-> "setattr() not allowed"],
      [pattern |-> <<"d", "e", "l", "a", "t", "t", "r", "(">>,
       message |-> "delattr() not allowed"]>>

\* _check_code_safety: (is_safe, error_message) of the first pattern found
CheckCodeSafety(code) ==
    LET code_lower == Lower(code)
        found == { k \in 1..Len(DANGEROUS_PATTERNS) :
                     Contains(code_lower, Lower(DANGEROUS_PATTERNS[k].pattern)) }
    IN  IF found = {}
        THEN [is_safe |-> TRUE, message |-> "None"]
        ELSE [is_safe |-> FALSE,
              message |-> DANGEROUS_PATTERNS[CHOOSE k \in found :
                                               \A j \in found : k <= j].message]

\* _data_transform: wrapped_code, with repr(input_data) given as `input_repr`
WrapCode(code, input_repr) ==
    <<"\n", "i", "n", "p", "u", "t", "_", "d", "a", "t", "a", " ", "=", " ">> \o input_repr
    \o <<"\n", "o", "u", "t", "p", "u", "t", "_", "d", "a", "t", "a", " ", "=", " ", "N", "o", "n", "e", "\n", "\n">>
    \o code
    \o <<"\n", "\n", "_", "_", "r", "e", "s", "u", "l", "t", "_", "_", " ", "=", " ", "o", "u", "t", "p", "u", "t", "_", "d", "a", "t", "a", "\n">>

\* what the child process of _run_subprocess may do
SubprocessOutcomes == {"success", "failure", "timeout", "exception"}

\* ExecutionSandbox.execute_safely: the SandboxResult, and whether
\* _run_subprocess was reached, the child process doing `outcome`
ExecuteSafely(available, code, outcome) ==
    LET safety_check == CheckCodeSafety(code)
    IN  IF ~available
        THEN [success |-> FALSE, error |-> <<"Sandbox not available">>, spawned |-> FALSE]
        ELSE IF ~safety_check.is_safe
        THEN [success |-> FALSE,
              error |-> <<"Code safety check failed", safety_check.message>>,
              spawned |-> FALSE]
        ELSE IF outcome = "success"
        THEN [success |-> TRUE, error |-> <<"None">>, spawned |-> TRUE]
        ELSE IF outcome = "failure"
        THEN [success |-> FALSE, error |-> <<"error of the code">>, spawned |-> TRUE]
        ELSE IF outcome = "timeout"
        THEN [success |-> FALSE, error |-> <<"Execution timeout">>, spawned |-> TRUE]
        ELSE [success |-> FALSE, error |-> <<"exception">>, spawned |-> TRUE]

\* InternalToolAdapter._data_transform: the AdapterResult, and whether a child
\* process was spawned
DataTransform(available, code, input_repr, outcome) ==
    IF code = <<>>
    THEN [success |-> FALSE, error |-> <<"No transformation code provided">>,
          error_code |-> "MISSING_CODE", spawned |-> FALSE]
    ELSE LET sandbox_result == ExecuteSafely(available, WrapCode(code, input_repr), outcome)
         IN  IF ~sandbox_result.success
             THEN [success |-> FALSE, error |-> sandbox_result.error,
                   error_code |-> "SANDBOX_ERROR", spawned |-> sandbox_result.spawned]
             ELSE [success |-> TRUE, error |-> <<"None">>, error_code |-> "None",
                   spawned |-> sandbox_result.spawned]

\* the pieces the submitted code is made of: deny-list entries in several
\* cases, an entry cut in two and a plain statement
CodeChunks ==
    {<<"i", "m", "p", "o", "r", "t", " ", "o", "s">>,
     <<"I", "m", "p", "o", "r", "t", " ", "O", "s">>,
     <<"i", "m", "p">>,
     <<"o", "r", "t", " ", "o", "s">>,
     <<"E", "V", "A", "L", "(">>,
     <<"x", " ", "=", " ", "1">>}

\* what a piece may follow: the first half of an entry, or a statement and a
\* line break
CodePrefixes == {<<"i", "m", "p">>, <<"x", " ", "=", " ", "1", "\n">>}

\* the code of a data_transform step: nothing, a piece, or a piece after a prefix
Codes == {<<>>} \cup CodeChunks \cup { a \o b : a \in CodePrefixes, b \in CodeChunks }

\* repr(input_data): an empty dict, and a dict holding a deny-list entry as data
InputReprs == {<<"{", "}">>, <<"{", "'", "k", "'", ":", " ", "'", "o", "p", "e", "n", "(", "'", "}">>}

SandboxInit ==
    /\ CBIdle
    /\ SelIdle
    /\ TaskIdle
    /\ ExecIdle
    /\ RetryIdle
    /\ RegistryIdle
    /\ RerunIdle
    /\ ShareIdle
    /\ ActiveIdle
    /\ WindowIdle
    /\ sandboxAvailable \in BOOLEAN
    /\ subprocesses = 0
    /\ lastTransform = NoTransform

\* InternalToolAdapter.execute of a data_transform step
data_transform(code, input_repr, outcome) ==
    /\ subprocesses < MaxSubprocesses
    /\ \E result \in {DataTransform(sandboxAvailable, code, input_repr, outcome)} :
           /\ subprocesses' = IF result.spawned THEN subprocesses + 1 ELSE subprocesses
           /\ lastTransform' =
                  [code |-> code, input_repr |-> input_repr,
                   success |-> result.success, error |-> result.error,
                   error_code |-> result.error_code,
                   subprocesses_before |-> subprocesses,
                   subprocesses_after |-> subprocesses']
    /\ UNCHANGED sandboxAvailable

SandboxNext ==
    \E code \in Codes, input_repr \in InputReprs, outcome \in SubprocessOutcomes :
        data_transform(code, input_repr, outcome)
           /\ UNCHANGED <<cbVars, selVars, taskVars, execVars, usage, activeRequests,
                          quotaVars, gateVars, retryVars, registryVars, rerunVars, shareVars, activeVars, windowVars>>

SpecSandbox == SandboxInit /\ [][SandboxNext]_vars

\* the code holds an entry of the deny list, letter case apart
HoldsDeniedEntry(code) ==
    \E k \in 1..Len(DANGEROUS_PATTERNS) :
        \E i \in 1..Len(code) :
            /\ i + Len(DANGEROUS_PATTERNS[k].pattern) - 1 <= Len(code)
            /\ \A j \in 1..Len(DANGEROUS_PATTERNS[k].pattern) :
                  LowerChar(code[i + j - 1]) = LowerChar(DANGEROUS_PATTERNS[k].pattern[j])

---------------------------------------------------------------------------
(* execute_plan called twice with the same plan and context, the adapters  *)
(* deterministic: execution_orchestrator.py and quota_manager.py            *)

\* the plans whose steps all use an internal tool; text_processing asks for no
\* scope, so every context grants what the plan needs
InternalPlans ==
    { p \in Plans : \A i \in 1..Len(p.steps) : p.steps[i].tool = "text_processing" }

\* what a deterministic adapter does on every call for a step: it succeeds, or
\* it fails with an error code that is retried
RerunOutcomes ==
    {Returns(TRUE, "None", "None"), Returns(FALSE, "adapter error", "API_ERROR")}

\* QuotaManager._custom_quotas: nothing set, or set_quota(user, internal, SmallQuota)
RerunQuotas == {NoCustomQuotas, [v \in {"internal"} |-> SmallQuota]}

\* the usage the first call finds: none, or two internal requests just recorded
RerunUsages ==
    { [v \in ToolVendor |-> VendorUsageState],
      [v \in ToolVendor |->
          IF v = "internal"
          THEN [minute_records |-> <<0, 0>>, hour_records |-> <<0, 0>>,
                day_records |-> <<0, 0>>]
          ELSE VendorUsageState] }

RerunInit ==
    /\ CBIdle
    /\ SelIdle
    /\ TaskIdle
    /\ GateIdle
    /\ RetryIdle
    /\ RegistryIdle
    /\ SandboxIdle
    /\ plan \in InternalPlans
    /\ permissions = NoPermissions
    /\ usage \in RerunUsages
    /\ activeRequests = [v \in ToolVendor |-> 0]
    /\ activeExecutions = {}
    /\ planPc = "start"
    /\ cursor = 0
    /\ stepState = [i \in 1..Len(plan.steps) |->
                      [status |-> "pending", calls |-> 0, result |-> NoStepResult]]
    /\ results = <<>>
    /\ completedStepIds = {}
    /\ execResult = NoResult
    /\ utcnow = 0
    /\ customQuotas \in RerunQuotas
    /\ lastQuotaCheck = NoQuotaCheck
    /\ recorded = [v \in ToolVendor |-> <<>>]
    /\ adapterScript \in [1..Len(plan.steps) -> RerunOutcomes]
    /\ firstResult = NoResult
    /\ ShareIdle
    /\ ActiveIdle
    /\ WindowIdle

\* _execute_with_retry with the deterministic adapter of step i
scripted_adapter(i) == adapter_answers(i, adapterScript[i])

\* the caller keeps the first ExecutionResult and calls execute_plan again with
\* the same plan and context, at once or a minute later; `results`,
\* completed_step_ids and the tasks of the steps are locals of the new call, the
\* quota manager keeps what the first call recorded
execute_plan_again ==
    /\ planPc = "returned"
    /\ firstResult = NoResult
    /\ firstResult' = execResult
    /\ \E t \in {utcnow, utcnow + OneMinute} : utcnow' = t
    /\ planPc' = "start"
    /\ cursor' = 0
    /\ stepState' = [i \in 1..Len(plan.steps) |->
                       [status |-> "pending", calls |-> 0, result |-> NoStepResult]]
    /\ results' = <<>>
    /\ completedStepIds' = {}
    /\ execResult' = NoResult
    /\ UNCHANGED <<plan, permissions, usage, activeRequests, activeExecutions,
                   customQuotas, lastQuotaCheck, recorded, adapterScript>>

RerunNext ==
    \/ execute_plan
          /\ UNCHANGED <<cbVars, selVars, taskVars, quotaVars, gateVars, retryVars,
                         registryVars, sandboxVars, rerunVars, shareVars, activeVars, windowVars>>
    \/ next_step
          /\ UNCHANGED <<cbVars, selVars, taskVars, quotaVars, gateVars, retryVars,
                         registryVars, sandboxVars, rerunVars, shareVars, activeVars, windowVars>>
    \/ \E i \in 1..Len(plan.steps) :
          start_root(i)
             /\ UNCHANGED <<cbVars, selVars, taskVars, quotaVars, gateVars, retryVars,
                            registryVars, sandboxVars, rerunVars, shareVars, activeVars, windowVars>>
    \/ \E i \in 1..Len(plan.steps) :
          scripted_adapter(i)
             /\ UNCHANGED <<cbVars, selVars, taskVars, quotaVars, gateVars, retryVars,
                            registryVars, sandboxVars, rerunVars, shareVars, activeVars, windowVars>>
    \/ gather_results
          /\ UNCHANGED <<cbVars, selVars, taskVars, quotaVars, gateVars, retryVars,
                         registryVars, sandboxVars, rerunVars, shareVars, activeVars, windowVars>>
    \/ finish_plan
          /\ UNCHANGED <<cbVars, selVars, taskVars, quotaVars, gateVars, retryVars,
                         registryVars, sandboxVars, rerunVars, shareVars, activeVars, windowVars>>
    \/ execute_plan_again
          /\ UNCHANGED <<cbVars, selVars, taskVars, gateVars, retryVars, registryVars,
                         sandboxVars, shareVars, activeVars, windowVars>>

SpecRerun == RerunInit /\ [][RerunNext]_vars

\* the step ids of an ExecutionResult, in the order of its step results
StepIdsOf(result) ==
    [k \in 1..Len(result.step_results) |-> result.step_results[k].step_id]

\* StepResult.artifacts of a step of an internal tool: InternalToolAdapter builds
\* its AdapterResults without artifacts, and the errors the executor makes up
\* have none, so the list is the default, empty
StepArtifacts(step_result) == <<>>

\* ExecutionResult.artifacts: all_artifacts of normalize_execution
RECURSIVE AllArtifacts(_)
AllArtifacts(step_results) ==
    IF step_results = <<>> THEN <<>>
    ELSE StepArtifacts(Head(step_results)) \o AllArtifacts(Tail(step_results))

\* two ExecutionResults agree in what the caller compares
SameOutcome(first, second) ==
    /\ StepIdsOf(first) = StepIdsOf(second)
    /\ Len(AllArtifacts(first.step_results)) = Len(AllArtifacts(second.step_results))
    /\ first.status = second.status

\* both calls have returned
BothReturned == planPc = "returned" /\ firstResult # NoResult

\* C26: the second of two execute_plan calls with a plan of internal tools and
\* deterministic adapters gives the step ids, the number of artifacts and the
\* aggregate status of the first, whatever usage the first call recorded
C26_SecondCallIdentical ==
    BothReturned => SameOutcome(firstResult, execResult)

\* C26 amended: the same, provided the quota check blocks both calls or neither
C26_SecondCallIdenticalUnlessBlocked ==
    (BothReturned /\ (firstResult.status = "blocked") = (execResult.status = "blocked"))
    => SameOutcome(firstResult, execResult)

\* a two-step plan ran twice under the default quotas, the second step failing
\* both times after all its attempts
C26_Witness ==
    /\ BothReturned
    /\ customQuotas = NoCustomQuotas
    /\ firstResult.status = "partial_success"
    /\ execResult.status = "partial_success"
    /\ StepIdsOf(execResult) = <<"S1", "S2">>
    /\ Len(usage["internal"].minute_records) = 4


---------------------------------------------------------------------------
(* Quota accounting of the steps of a plan                                  *)

\* the steps of the vendor whose execute_step returns in this step of the run,
\* their adapter having been invoked
StepsEnding(v) ==
    { i \in 1..Len(plan.steps) :
        /\ stepState[i].status = "running"
        /\ stepState'[i].status # "running"
        /\ GetTool(plan.steps[i].tool).vendor = v }

\* C31: a step whose adapter was invoked records exactly one usage for its
\* vendor when it ends, whether it succeeded, failed or used all its attempts and
\* however many attempts it made; nothing else in a run records usage - not a
\* step given a "Dependencies not met" result, not one that was never reached -
\* and no invoked step is left running when the plan returns
C31_OneUsagePerInvokedStep ==
    /\ [](planPc = "returned"
            => \A i \in 1..Len(plan.steps) : stepState[i].status # "running")
    /\ [][\A v \in ToolVendor :
            /\ Len(usage'[v].minute_records)
                 = Len(usage[v].minute_records) + Cardinality(StepsEnding(v))
            /\ Len(usage'[v].day_records)
                 = Len(usage[v].day_records) + Cardinality(StepsEnding(v))
            /\ \A i \in 1..Len(plan.steps) :
                  (stepState'[i].status = "running" /\ stepState[i].status # "running")
                     => stepState[i].calls = 0]_vars

\* a plan returned after one internal step used all four attempts and failed,
\* one succeeded and one was given a "Dependencies not met" result: two usages
C31_Witness ==
    /\ planPc = "returned"
    /\ Len(plan.steps) = 3
    /\ \E i, j, k \in 1..3 :
          /\ stepState[i].calls = 4 /\ stepState[i].status = "failure"
          /\ stepState[j].calls = 1 /\ stepState[j].status = "success"
          /\ stepState[k].calls = 0
          /\ \E n \in 1..Len(results) :
                /\ results[n].step_id = plan.steps[k].step_id
                /\ results[n].error = "Dependencies not met"
    /\ \A i \in 1..3 : plan.steps[i].tool = "text_processing"
    /\ Len(usage["internal"].day_records) = 2


\* the steps of the vendor between increment_active and decrement_active
StepsInFlight(v) ==
    { i \in 1..Len(plan.steps) :
        stepState[i].status = "running" /\ GetTool(plan.steps[i].tool).vendor = v }

\* C32: increment_active and decrement_active bracket every step execution: the
\* active count of a vendor is the number of its steps in flight, so when
\* execute_plan has returned, in either mode and whatever the steps did, every
\* count is back at the value it had before the plan started
C32_ActiveCountRestored ==
    /\ \A v \in ToolVendor : activeRequests[v] = Cardinality(StepsInFlight(v))
    /\ planPc = "returned" => activeRequests = [v \in ToolVendor |-> 0]

\* a parallel plan returned after a root step failed on all its attempts and
\* another succeeded
C32_Witness ==
    /\ planPc = "returned"
    /\ plan.parallel_execution
    /\ \E i, j \in 1..Len(plan.steps) :
          /\ plan.steps[i].depends_on = {} /\ plan.steps[j].depends_on = {}
          /\ stepState[i].calls = 4 /\ stepState[i].status = "failure"
          /\ stepState[j].calls = 2 /\ stepState[j].status = "success"
    /\ activeRequests = [v \in ToolVendor |-> 0]


\* C33: at every moment the number of step executions in flight for a vendor is
\* at most the vendor's concurrent_requests cap, also for a parallel plan with
\* more root steps than the cap
C33_InFlightWithinCap ==
    \A v \in ToolVendor :
        /\ Cardinality(StepsInFlight(v)) <= GetQuota(customQuotas, v).concurrent_requests
        /\ activeRequests[v] <= GetQuota(customQuotas, v).concurrent_requests


\* ---------------------------------------------------------------------------
\* _execute_parallel: fan-out, join, then the dependent steps in declared order

\* every step without depends_on has returned from execute_step
RootsFinished ==
    \A i \in 1..Len(plan.steps) :
        plan.steps[i].depends_on = {} => stepState[i].status \in {"success", "failure"}

\* the loop over the dependent steps is past step i: its result is in the list
Handled(res, i) == \E k \in 1..Len(res) : res[k].step_id = plan.steps[i].step_id

\* the steps with depends_on
Dependents == { i \in 1..Len(plan.steps) : plan.steps[i].depends_on # {} }

\* C34: in parallel mode every step without depends_on has been started (and
\* has returned) before the gather hands over any result, no step with
\* depends_on starts or gets a result before every root has finished, and the
\* dependent steps are taken one at a time in the order the plan declares them
C34_FanOutThenJoin ==
    /\ [](plan.parallel_execution =>
            /\ results # <<>> => RootsFinished
            /\ Cardinality({ i \in Dependents : stepState[i].status = "running" }) <= 1)
    /\ [][plan.parallel_execution =>
            \A i \in Dependents :
                (stepState'[i] # stepState[i] \/ (Handled(results', i) /\ ~Handled(results, i)))
                => /\ RootsFinished
                   /\ results # <<>> \/ \A j \in 1..Len(plan.steps) : plan.steps[j].depends_on # {}
                   /\ \A j \in Dependents \ {i} : stepState[j].status # "running"
                   /\ \A j \in Dependents : j < i => Handled(results, j)
                   /\ \A j \in Dependents : j > i => ~Handled(results, j)]_vars

C34_Witness ==
    /\ planPc = "returned"
    /\ plan.parallel_execution
    /\ Len(plan.steps) = 3
    /\ plan.steps[1].depends_on = {}
    /\ plan.steps[2].depends_on = {"S1"}
    /\ plan.steps[3].depends_on = {"S2"}
    /\ \A i \in 1..3 : stepState[i].status = "success"
    /\ StepIdsOf(execResult) = <<"S1", "S2", "S3">>


\* ---------------------------------------------------------------------------
\* The shared_data a step is handed: execute_plan with the contexts and the
\* step outputs tracked

\* AdapterResult.data of a successful call for step i, as a set of items: None
\* or an empty dict (both falsy), or a dict with an entry
StepData(i) == { {}, {<<"result", plan.steps[i].step_id>>} }

\* a step execute_step has not been called for
NotCalled == [called |-> FALSE, shared_data |-> <<>>]

\* shared_data[step_id] = output
Put(data, step_id, output) ==
    [id \in DOMAIN data \cup {step_id} |-> IF id = step_id THEN output ELSE data[id]]

ShareInit ==
    /\ CBIdle
    /\ SelIdle
    /\ TaskIdle
    /\ GateIdle
    /\ RetryIdle
    /\ RegistryIdle
    /\ SandboxIdle
    /\ RerunIdle
    /\ ActiveIdle
    /\ WindowIdle
    /\ plan \in InternalPlans
    /\ permissions = NoPermissions
    /\ usage = [v \in ToolVendor |-> VendorUsageState]
    /\ activeRequests = [v \in ToolVendor |-> 0]
    /\ activeExecutions = {}
    /\ planPc = "start"
    /\ cursor = 0
    /\ stepState = [i \in 1..Len(plan.steps) |->
                      [status |-> "pending", calls |-> 0, result |-> NoStepResult]]
    /\ results = <<>>
    /\ completedStepIds = {}
    /\ execResult = NoResult
    /\ utcnow = 0
    /\ customQuotas = NoCustomQuotas
    /\ lastQuotaCheck = NoQuotaCheck
    /\ recorded = [v \in ToolVendor |-> <<>>]
    /\ sharedData = InitialSharedData
    /\ stepContext = [i \in 1..Len(plan.steps) |-> NotCalled]
    /\ stepOutput = [i \in 1..Len(plan.steps) |-> {}]

\* the context execute_step is called with for step i: updated_context with the
\* accumulated shared_data in _execute_sequential, the caller's `context` in
\* _execute_parallel
HandContext(i) ==
    stepContext' = [stepContext EXCEPT ![i] =
                      [called |-> TRUE,
                       shared_data |-> IF plan.parallel_execution
                                       THEN InitialSharedData
                                       ELSE sharedData]]

\* the loop reaches its next step: a step whose dependencies are not met gets its
\* made-up result, any other step is executed with the context of its mode
walk_step ==
    /\ next_step
    /\ LET i == WalkOrder[cursor]
           step == plan.steps[i]
       IN  IF step.depends_on # {} /\ ~DepsMet(step)
           THEN UNCHANGED stepContext
           ELSE HandContext(i)
    /\ UNCHANGED <<sharedData, stepOutput>>

\* _execute_parallel: the gathered execute_step(step, context) of a root starts
root_task(i) ==
    /\ start_root(i)
    /\ HandContext(i)
    /\ UNCHANGED <<sharedData, stepOutput>>

\* adapter.execute answers for step i; when execute_step returns, the result's
\* output is the data of the AdapterResult, and _execute_sequential stores a
\* truthy output under the step id
adapter_gives(i, outcome, data) ==
    /\ adapter_answers(i, outcome)
    /\ LET ended == stepState'[i].status # "running"
           output == IF stepState'[i].status = "success" THEN data ELSE {}
       IN  /\ stepOutput' = [stepOutput EXCEPT ![i] = IF ended THEN output ELSE @]
           /\ sharedData' =
                 IF ended /\ ~plan.parallel_execution /\ output # {}
                 THEN Put(sharedData, plan.steps[i].step_id, output)
                 ELSE sharedData
    /\ UNCHANGED stepContext

ShareNext ==
    \/ execute_plan
          /\ UNCHANGED <<cbVars, selVars, taskVars, quotaVars, gateVars, retryVars,
                         registryVars, sandboxVars, rerunVars, shareVars, activeVars, windowVars>>
    \/ walk_step
          /\ UNCHANGED <<cbVars, selVars, taskVars, quotaVars, gateVars, retryVars,
                         registryVars, sandboxVars, rerunVars, activeVars, windowVars>>
    \/ \E i \in 1..Len(plan.steps) :
          root_task(i)
             /\ UNCHANGED <<cbVars, selVars, taskVars, quotaVars, gateVars, retryVars,
                            registryVars, sandboxVars, rerunVars, activeVars, windowVars>>
    \/ \E i \in 1..Len(plan.steps) : \E outcome \in RerunOutcomes : \E data \in StepData(i) :
          adapter_gives(i, outcome, data)
             /\ UNCHANGED <<cbVars, selVars, taskVars, quotaVars, gateVars, retryVars,
                            registryVars, sandboxVars, rerunVars, activeVars, windowVars>>
    \/ gather_results
          /\ UNCHANGED <<cbVars, selVars, taskVars, quotaVars, gateVars, retryVars,
                         registryVars, sandboxVars, rerunVars, shareVars, activeVars, windowVars>>
    \/ finish_plan
          /\ UNCHANGED <<cbVars, selVars, taskVars, quotaVars, gateVars, retryVars,
                         registryVars, sandboxVars, rerunVars, shareVars, activeVars, windowVars>>

SpecShare == ShareInit /\ [][ShareNext]_vars

\* the context handed to step i at this step carries the output of every
\* depends_on step that has succeeded with an output
CarriesOutputs(i) ==
    \A dep_id \in plan.steps[i].depends_on : \A j \in 1..Len(plan.steps) :
        (plan.steps[j].step_id = dep_id /\ stepState[j].status = "success"
            /\ stepOutput[j] # {})
        => /\ dep_id \in DOMAIN stepContext'[i].shared_data
           /\ stepContext'[i].shared_data[dep_id] = stepOutput[j]

\* C35: in sequential and in parallel mode, whenever execute_step is called for
\* a step, the shared_data of the context it receives holds, under the step id,
\* the output of every depends_on step that completed successfully before
C35_ContextCarriesOutputs ==
    [][\A i \in 1..Len(plan.steps) :
          (stepContext'[i].called /\ ~stepContext[i].called) => CarriesOutputs(i)]_vars


\* ---------------------------------------------------------------------------
\* execute_task: which provider's breaker a run records against

\* the provider of a model the run called generate on
ProviderOf(model_name) == GetModel(registry, model_name).provider

\* the generate calls of the run that failed: every call when the run ends in
\* the handler, every call but the last when an output was produced
FailedGenerations ==
    IF pc = "except" THEN { generated[k] : k \in 1..Len(generated) }
    ELSE { generated[k] : k \in 1..(Len(generated) - 1) }

\* C36: within one execute_task run record_failure is called for a provider
\* only if a generate call to that provider failed in the run, and
\* record_success only for the provider whose generate call produced the
\* output that is returned
C36_BreakerRecordsActualProvider ==
    [][/\ (pc = "finish" /\ lastCall'.op = "record_success")
            => lastCall'.provider = ProviderOf(response'.output)
       /\ (pc = "except" /\ lastCall'.op = "record_failure" /\ circuits' # circuits)
            => \E m \in FailedGenerations : ProviderOf(m) = lastCall'.provider]_vars


\* ---------------------------------------------------------------------------
\* select_model: the alternatives handed to execute_with_fallback

\* C37: every model named in the alternatives of the SelectedModel is a
\* registered model that scoring did not disqualify and that meets the
\* profile's requirements
C37_AlternativesQualified ==
    selected.kind = "selected" =>
        \A k \in 1..Len(selected.alternatives) :
            LET model == GetModel(registry, selected.alternatives[k])
                profile == Extract(request)
            IN  /\ model.name # "None"
                /\ CheckDisqualification(model, profile) = "None"
                /\ ScoreModel(model, profile).meets_requirements


\* ---------------------------------------------------------------------------
\* ActionStep.status against the StepResult of the step

\* C38: once execute_plan has returned a normalized result, every plan step
\* that has a step result carries that result's status, so no step with a
\* result is left pending or running
C38_StepStatusMatchesResult ==
    (planPc = "returned" /\ "step_results" \in DOMAIN execResult) =>
        \A k \in 1..Len(execResult.step_results) : \A i \in 1..Len(plan.steps) :
            plan.steps[i].step_id = execResult.step_results[k].step_id
            => stepState[i].status = execResult.step_results[k].status


\* ---------------------------------------------------------------------------
\* _active_executions under overlapping execute_plan calls, resume_plan and
\* get_active_executions

\* the execute_plan calls the callers make
MaxPlanCalls == 2

\* the execution ids of their plans
ExecutionIds == {"E1", "E2"}

\* the ways execute_plan returns; each one passes through the `finally`
ReturnPaths == {"validation error", "blocked", "normal result", "exception"}

\* the variables of the executor that these operations leave alone
activeFrame ==
    <<plan, permissions, usage, activeRequests, planPc, cursor, stepState, results,
      completedStepIds, execResult>>

ActiveInit ==
    /\ CBIdle
    /\ SelIdle
    /\ TaskIdle
    /\ ExecIdle
    /\ RetryIdle
    /\ RegistryIdle
    /\ SandboxIdle
    /\ RerunIdle
    /\ ShareIdle
    /\ WindowIdle
    /\ planCalls = [c \in 1..MaxPlanCalls |->
                      [pc |-> "idle", execution_id |-> "None", path |-> "None"]]
    /\ resumeResult = NoResult
    /\ listedExecutions = {}

\* execute_plan up to its first await: `self._active_executions[execution_id] = plan`
call_starts(c, execution_id) ==
    /\ planCalls[c].pc = "idle"
    /\ planCalls' = [planCalls EXCEPT ![c] = [pc |-> "in flight",
                                              execution_id |-> execution_id,
                                              path |-> "None"]]
    /\ activeExecutions' = activeExecutions \cup {execution_id}
    /\ UNCHANGED <<resumeResult, listedExecutions>>

\* execute_plan returns by `path`; `finally: self._active_executions.pop(execution_id, None)`
call_returns(c, path) ==
    /\ planCalls[c].pc = "in flight"
    /\ planCalls' = [planCalls EXCEPT ![c].pc = "returned", ![c].path = path]
    /\ activeExecutions' = activeExecutions \ {planCalls[c].execution_id}
    /\ UNCHANGED <<resumeResult, listedExecutions>>

\* resume_plan: three returns, each an error result; `incomplete` says whether the
\* stored plan has a step that is PENDING or RUNNING
resume_plan(execution_id, incomplete) ==
    /\ resumeResult' =
          IF execution_id \notin activeExecutions
          THEN CreateErrorResult("No active execution found with ID")
          ELSE IF ~incomplete
          THEN CreateErrorResult("No incomplete steps to resume")
          ELSE CreateErrorResult("Resume not fully implemented - context not available")
    /\ UNCHANGED <<planCalls, activeExecutions, listedExecutions>>

\* get_active_executions: list(self._active_executions.keys())
get_active_executions ==
    /\ listedExecutions' = activeExecutions
    /\ UNCHANGED <<planCalls, activeExecutions, resumeResult>>

ActiveNext ==
    \/ \E c \in 1..MaxPlanCalls : \E execution_id \in ExecutionIds :
          call_starts(c, execution_id)
             /\ UNCHANGED <<cbVars, selVars, taskVars, activeFrame, quotaVars, gateVars,
                            retryVars, registryVars, sandboxVars, rerunVars, shareVars,
                            windowVars>>
    \/ \E c \in 1..MaxPlanCalls : \E path \in ReturnPaths :
          call_returns(c, path)
             /\ UNCHANGED <<cbVars, selVars, taskVars, activeFrame, quotaVars, gateVars,
                            retryVars, registryVars, sandboxVars, rerunVars, shareVars,
                            windowVars>>
    \/ \E execution_id \in ExecutionIds : \E incomplete \in BOOLEAN :
          resume_plan(execution_id, incomplete)
             /\ UNCHANGED <<cbVars, selVars, taskVars, activeFrame, quotaVars, gateVars,
                            retryVars, registryVars, sandboxVars, rerunVars, shareVars,
                            windowVars>>
    \/ get_active_executions
          /\ UNCHANGED <<cbVars, selVars, taskVars, activeFrame, quotaVars, gateVars,
                         retryVars, registryVars, sandboxVars, rerunVars, shareVars,
                            windowVars>>

SpecActive == ActiveInit /\ [][ActiveNext]_vars

\* the execution ids with an execute_plan call in flight
InFlightIds ==
    { planCalls[c].execution_id :
        c \in { k \in 1..MaxPlanCalls : planCalls[k].pc = "in flight" } }

\* C39: the ids get_active_executions lists are exactly those with an
\* execute_plan call in flight, whatever path the calls that returned took and
\* also when two calls carry the same id; and resume_plan returns an error
\* result without step results
C39_ActiveExactlyInFlight ==
    /\ activeExecutions = InFlightIds
    /\ resumeResult # NoResult =>
          resumeResult.status = "failure" /\ resumeResult.step_results = <<>>


\* ---------------------------------------------------------------------------
\* CreditRateLimiter: the usage check_budget compares, against everything
\* record_consumption has recorded

\* the instants of the clock: the first day, the day after, and the first day
\* of the following month
WindowTimes == <<0, 1, OneHour, OneHour + 1, OneDay, 31 * OneDay>>

WindowInit ==
    /\ CBIdle /\ SelIdle /\ PlanIdle
    /\ pc = "idle"
    /\ dbStatus = "pending"
    /\ response = NoResponse
    /\ attempt = 0
    /\ modelsTried = <<>>
    /\ generated = <<>>
    /\ raised = "None"
    /\ CreditIdle
    /\ CostIdle
    /\ BudgetIdle

\* what the budget operations leave alone
windowFrame ==
    <<cbVars, selVars, pc, dbStatus, response, attempt, modelsTried, generated, raised,
      creditVars, costVars, traceVars, execVars, usage, activeRequests, quotaVars,
      gateVars, retryVars, registryVars, sandboxVars, rerunVars, shareVars, activeVars>>

\* record_consumption, with the record kept in the history
logged_consumption(credits) ==
    /\ Len(consumptionLog) < MaxConsumptions
    /\ record_consumption(credits)
    /\ consumptionLog' = Append(consumptionLog,
                                [timestamp |-> datetimeNow, credits |-> credits])

\* the clock moves to its next instant
WindowTick ==
    /\ \E i \in 1..(Len(WindowTimes) - 1) :
         /\ datetimeNow = WindowTimes[i]
         /\ datetimeNow' = WindowTimes[i + 1]
    /\ lastBudget' = NoBudgetCall
    /\ UNCHANGED officeState

WindowNext ==
    \/ \E estimated_credits \in {0, 1}, budget_pause_enabled \in BOOLEAN :
         /\ budget_check(estimated_credits, NoLimit, NoLimit, 1, budget_pause_enabled)
         /\ UNCHANGED <<windowFrame, consumptionLog>>
    \/ \E credits \in {1, MaxConsumptions} :
         /\ logged_consumption(credits)
         /\ UNCHANGED windowFrame
    \/ WindowTick
         /\ UNCHANGED <<windowFrame, consumptionLog>>

SpecWindow == WindowInit /\ [][WindowNext]_vars

\* the credits recorded at or after instant `since`
CreditsSince(since) ==
    SumCredits(SelectSeq(consumptionLog, LAMBDA r : r.timestamp >= since))

\* the credits recorded within the hour before t
CreditsInLastHour(t) ==
    SumCredits(SelectSeq(consumptionLog, LAMBDA r : r.timestamp > t - OneHour))

\* the most recent midnight at instant t
LastMidnight(t) == (t \div OneDay) * OneDay

\* C40: the hourly usage check_budget has just compared is the sum of the
\* credits recorded within the last hour, and the daily usage is the sum of the
\* credits recorded since the most recent midnight, also after a gap that ends
\* on the same day-of-month number
C40_UsageMatchesRecorded ==
    lastBudget.op = "check_budget" =>
        /\ SumCredits(officeState.hourly_records) = CreditsInLastHour(datetimeNow)
        /\ officeState.daily_credits = CreditsSince(LastMidnight(datetimeNow))

===========================================================================
